---- MODULE Spec2Model ----
(***************************************************************************)
(* Price-time priority limit order book of the matching engine:            *)
(* Order (Order.hpp), PriceLevel (PriceLevel.hpp) and OrderBook            *)
(* (OrderBook.hpp) with its expiry sweep, driven by the callers of         *)
(* OrderBook::addOrder / cancelOrder (MockTrader.hpp, main.cpp).           *)
(*                                                                         *)
(* One book (one instrument) is modelled.  Every public operation of the   *)
(* book runs under OrderBook::mutex_, so each one is a single action.      *)
(* Prices are small naturals standing for the double keys of the side      *)
(* maps; only their order and equality are used by the code.               *)
(*                                                                         *)
(* Spec is the book on its own, constructed without a Logger (the default  *)
(* argument of its constructor).  LogSpec is the book as main.cpp builds   *)
(* it, with the Logger, driven by the threads that call it: the console    *)
(* user, a retail MockTrader and the book's expiry thread.                 *)
(***************************************************************************)
EXTENDS Integers, Sequences, FiniteSets, TLC

\* ---------------------------------------------------------------- bounds
MaxOrders == 3          \* orders constructed in one run
MaxPrice  == 1          \* prices are 0..MaxPrice
MaxQty    == 2          \* quantities are 0..MaxQty
MaxRingSteps == 5       \* ring steps taken in one run
MaxRotationSteps == 8   \* ring steps taken in one run of a whole rotation
MaxTapeTrades == 102    \* trades of one long run on one book

\* ------------------------------------------------------ program constants
ORDER_EXPIRY_SECONDS == 5
CIRCULAR_QUANTITY    == 5000
RECENT_TRADES_MAX    == 100

Prices     == 0..MaxPrice
Quantities == 0..MaxQty
Sides      == {"BUY", "SELL"}
TIFs       == {"GTC", "IOC"}
Traders    == {"T1", "T2"}

\* The trader id is carried through the book unread; two callers submit
\* in turn, so that consecutive orders come from different traders and
\* every other order from the same one.
TraderOf(id) == IF id % 2 = 1 THEN "T1" ELSE "T2"
NA         == "NA"
NA_TRADE_ID == 0        \* the "NA" sentinel as a trade id; real trade ids start at 1

VARIABLES
    orders,         \* every Order object constructed so far, by order id
    buyLevels_,     \* OrderBook::buyLevels_  : price -> PriceLevel
    sellLevels_,    \* OrderBook::sellLevels_ : price -> PriceLevel
    orderMap_,      \* OrderBook::orderMap_   : the ids it indexes
    recentTrades_,  \* OrderBook::recentTrades_
    totalVolume_, buyVolume_, sellVolume_, tradeCount_,
    execs,          \* history: one record per executeTrade call
    mutex_,         \* OrderBook::mutex_ : "free" or "held"
    logger_,        \* OrderBook::logger_ is not null
    sink,           \* the rows handed to Logger::sendILP, in the order of the sends
    callers,        \* where each calling thread stands, by trader
    toExpire,       \* expirePendingOrders: the swept orders not yet logged
    userOrders_,    \* TradingApplication::userOrders_ : the ids it holds
    sock_,          \* Logger::sock_ : the connection to the endpoint, as the kernel has it
    endpoint,       \* the endpoint (QuestDB, port 9009) is listening
    call,           \* the logOrder / logTrade call that holds Logger::mutex_
    terminated,     \* the process was ended by a signal
    step_,          \* CircularRingCoordinator::step_
    ringPrice_,     \* CircularRingCoordinator::ringPrice_
    ringRunning_,   \* CircularRingCoordinator::running_
    members,        \* where each ring worker stands and its locals, by memberIdx
    ringTaken,      \* history: the steps taken under mtx_, in order
    ringPlaced,     \* history: the step of each ring order, in the order of their addOrder
    phase,          \* where the main thread stands in start() and ~TradingApplication
    loggerAlive,    \* TradingApplication::logger_ has not been destroyed
    traderRunning,  \* MockTrader::running_
    expiryRunning_, \* OrderBook::expiryRunning_
    expiryPc,       \* where the book's expiry thread stands in its loop
    lateCall,       \* history: logOrder / logTrade was called on the destroyed Logger
    depth,          \* a depth observer: its position and what it has read so far
    type_,          \* Order::type_ of each order constructed, by id
    wash,           \* the wash trader's thread: its position and its local washPrice
    washLegs        \* history: the legs the wash trader has submitted

\* the Logger's connection and the process around it
sinkVars == <<sock_, endpoint, call, terminated>>

\* the ring coordinator and its four workers
ringVars == <<step_, ringPrice_, ringRunning_, members, ringTaken, ringPlaced>>

\* the application's threads and their flags
appVars == <<phase, loggerAlive, traderRunning, expiryRunning_, expiryPc, lateCall>>

\* what lies outside the book and the threads that call it
depthVars == <<depth>>

traderVars == <<type_, wash, washLegs>>

sideVars == <<depthVars, traderVars>>

outsideVars == <<sinkVars, ringVars, appVars, sideVars>>

vars == <<orders, buyLevels_, sellLevels_, orderMap_, recentTrades_,
          totalVolume_, buyVolume_, sellVolume_, tradeCount_, execs, mutex_,
          logger_, sink, callers, toExpire, userOrders_, outsideVars>>

\* The book as one value, so that the private methods can be written as
\* functions from book to book.
Book ==
    [orders |-> orders, buyLevels_ |-> buyLevels_, sellLevels_ |-> sellLevels_,
     orderMap_ |-> orderMap_, recentTrades_ |-> recentTrades_,
     totalVolume_ |-> totalVolume_, buyVolume_ |-> buyVolume_,
     sellVolume_ |-> sellVolume_, tradeCount_ |-> tradeCount_, execs |-> execs,
     logger_ |-> logger_, sink |-> sink]

Min(a, b) == IF a <= b THEN a ELSE b

\* F applied to the value of v, with v evaluated once: a local variable
\* of the code that is assigned once and read several times.
Let(v, F(_)) == CHOOSE r \in {F(x) : x \in {v}} : TRUE

SetMax(S) == CHOOSE x \in S : \A y \in S : y <= x

SetMin(S) == CHOOSE x \in S : \A y \in S : x <= y

OppositeSide(side) == IF side = "BUY" THEN "SELL" ELSE "BUY"

\* ------------------------------------------------------------------ Order
NewOrder(side, price, quantity, tif, traderId) ==
    [side |-> side, price |-> price, quantity |-> quantity,
     remainingQuantity |-> quantity, timeInForce |-> tif,
     traderId |-> traderId, status |-> "NEW",
     age |-> 0, cancelTimestamp |-> 0,
     matchedTradeId |-> NA_TRADE_ID, counterpartyBuyerUid |-> NA,
     counterpartySellerUid |-> NA]

\* fill() with the two outcomes of its status test exchanged
OrderFill_InvertedStatus(o, quantity) ==
    [o EXCEPT !.remainingQuantity = @ - quantity,
              !.status = IF o.remainingQuantity - quantity = 0
                         THEN "PARTIALLY_FILLED" ELSE "FILLED"]

OrderFill(o, quantity) ==
    [o EXCEPT !.remainingQuantity = @ - quantity,
              !.status = IF o.remainingQuantity - quantity = 0
                         THEN "FILLED" ELSE "PARTIALLY_FILLED"]

\* fillWithTradeContext() that leaves a context already set alone
OrderFillWithTradeContext_FirstOnly(o, quantity, tradeId, buyerUid, sellerUid) ==
    OrderFill(IF o.matchedTradeId # NA_TRADE_ID THEN o
              ELSE [o EXCEPT !.matchedTradeId = tradeId,
                             !.counterpartyBuyerUid = buyerUid,
                             !.counterpartySellerUid = sellerUid], quantity)

OrderFillWithTradeContext(o, quantity, tradeId, buyerUid, sellerUid) ==
    OrderFill([o EXCEPT !.matchedTradeId = tradeId,
                        !.counterpartyBuyerUid = buyerUid,
                        !.counterpartySellerUid = sellerUid], quantity)

IsTerminal(status) == status \in {"CANCELLED", "FILLED", "EXPIRED"}

\* cancel() without its test of the status
OrderCancel_Unguarded(o) == [o EXCEPT !.status = "CANCELLED", !.cancelTimestamp = 1]

\* cancel() without the cancelTimestamp_ assignment
OrderCancel_NoStamp(o) ==
    IF ~IsTerminal(o.status)
    THEN [o EXCEPT !.status = "CANCELLED"]
    ELSE o

\* cancelTimestamp: 0 is the epoch-zero default, 1 any time_point read
\* from the clock
OrderCancel(o) ==
    IF ~IsTerminal(o.status)
    THEN [o EXCEPT !.status = "CANCELLED", !.cancelTimestamp = 1]
    ELSE o

\* expire() that also clears what is left of the order
OrderExpire_ZeroRemaining(o) == [o EXCEPT !.status = "EXPIRED", !.remainingQuantity = 0]

OrderExpire(o) == [o EXCEPT !.status = "EXPIRED"]

\* ------------------------------------------------------------- PriceLevel
NewPriceLevel == [orders_ |-> <<>>, totalQuantity_ |-> 0]

\* addOrder() with push_front in place of push_back
PriceLevelAddOrder_Front(lv, id, remaining) ==
    [orders_ |-> <<id>> \o lv.orders_,
     totalQuantity_ |-> lv.totalQuantity_ + remaining]

PriceLevelAddOrder(lv, id, remaining) ==
    [orders_ |-> Append(lv.orders_, id),
     totalQuantity_ |-> lv.totalQuantity_ + remaining]

\* getFirstOrder() with back() in place of front()
PriceLevelGetFirstOrder_Back(lv) ==
    IF lv.orders_ = <<>> THEN 0 ELSE lv.orders_[Len(lv.orders_)]

\* 0 stands for the null pointer
PriceLevelGetFirstOrder(lv) ==
    IF lv.orders_ = <<>> THEN 0 ELSE Head(lv.orders_)

PriceLevelIsEmpty(lv) == lv.orders_ = <<>>

SeqErase(s, i) == [k \in 1..(Len(s) - 1) |-> IF k < i THEN s[k] ELSE s[k + 1]]

PriceLevelRemoveOrder(lv, id, remaining) ==
    IF \E i \in 1..Len(lv.orders_) : lv.orders_[i] = id
    THEN LET i == CHOOSE j \in 1..Len(lv.orders_) :
                      /\ lv.orders_[j] = id
                      /\ \A k \in 1..(j - 1) : lv.orders_[k] # id
         IN  [orders_ |-> SeqErase(lv.orders_, i),
              totalQuantity_ |-> lv.totalQuantity_ - remaining]
    ELSE lv

\* ----------------------------------------------------------------- Logger
OrderStatusEventStr(status) ==
    CASE status = "NEW"              -> "ORDER_NEW"
      [] status = "PARTIALLY_FILLED" -> "ORDER_PARTIAL"
      [] status = "FILLED"           -> "ORDER_FILLED"
      [] status = "CANCELLED"        -> "ORDER_CANCELLED"
      [] status = "EXPIRED"          -> "ORDER_EXPIRED"
      [] OTHER                       -> "ORDER_UNKNOWN"

\* The row logOrder builds from an order, reduced to the tags that tell
\* rows apart here.  bookMutexHeld is not a column: it records whether the
\* thread calling logOrder held OrderBook::mutex_ during the call.
LogOrderRow(id, o, bookMutexHeld) ==
    [order_id |-> id,
     order_status_event |-> OrderStatusEventStr(o.status),
     trade_id |-> o.matchedTradeId,
     bookMutexHeld |-> bookMutexHeld]

\* The row logTrade builds: order_id is the buy order's id.
LogTradeRow(trade, bookMutexHeld) ==
    [order_id |-> trade.buyOrderId,
     order_status_event |-> "TRADE_MATCH",
     trade_id |-> trade.tradeId,
     bookMutexHeld |-> bookMutexHeld]

\* sendILP with the endpoint reachable: the line goes out, after the
\* lines sent before it (Logger::mutex_ is held around each send).  The
\* stream is kept as its lines by order_id tag: stream[id] is the lines
\* tagged order_id = id, in the order they were sent.
SendILP(stream, row) == [stream EXCEPT ![row.order_id] = Append(@, row)]

INVALID_SOCK == "INVALID_SOCK"

\* Logger::sock_ as the kernel has it: INVALID_SOCK, or a socket that is
\*   "connected"   established, the endpoint reads what is sent;
\*   "peer_closed" the endpoint closed its end (FIN received);
\*   "reset"       the endpoint reset the connection while established;
\*   "pipe"        the endpoint answered data sent after its close with a reset.
SockStates == {INVALID_SOCK, "connected", "peer_closed", "reset", "pipe"}

\* connectToQuestDB, lines 282-296: the socket it leaves in sock_
ConnectToQuestDB(listening) == IF listening THEN "connected" ELSE INVALID_SOCK

\* ::send(sock_, ..., 0) by the state of the socket: what it returns to
\* the caller ("sent" > 0, "error" <= 0), or that it raises SIGPIPE, which
\* no handler is installed for and which ends the process.  Where a build
\* has no SIGPIPE the same send returns an error.
SendOutcomes(sock) ==
    CASE sock = "connected"   -> {"sent"}
      [] sock = "peer_closed" -> {"sent"}
      [] sock = "reset"       -> {"error"}
      [] sock = "pipe"        -> {"SIGPIPE", "error"}

\* the socket after a send on it
SockAfterSend(sock) == IF sock = "peer_closed" THEN "pipe" ELSE sock

\* the line reaches the endpoint
Delivers(sock) == sock = "connected"

\* -------------------------------------------------------------- OrderBook
SideLevels(b, side) == IF side = "BUY" THEN b.buyLevels_ ELSE b.sellLevels_

WithSideLevels(b, side, lvs) ==
    IF side = "BUY" THEN [b EXCEPT !.buyLevels_ = lvs]
                    ELSE [b EXCEPT !.sellLevels_ = lvs]

MapErase(m, key) == [k \in (DOMAIN m) \ {key} |-> m[k]]

MapPut(m, key, val) == [k \in (DOMAIN m) \cup {key} |-> IF k = key THEN val ELSE m[k]]

BestBidPrice(b) ==
    IF DOMAIN b.buyLevels_ = {} THEN 0 ELSE SetMax(DOMAIN b.buyLevels_)

BestAskPrice(b) ==
    IF DOMAIN b.sellLevels_ = {} THEN 0 ELSE SetMin(DOMAIN b.sellLevels_)

AddToBook(b, id) ==
    LET o   == b.orders[id]
        lvs == SideLevels(b, o.side)
        lv  == IF o.price \in DOMAIN lvs THEN lvs[o.price] ELSE NewPriceLevel
        b1  == WithSideLevels(b, o.side,
                   MapPut(lvs, o.price, PriceLevelAddOrder(lv, id, o.remainingQuantity)))
    IN  [b1 EXCEPT !.orderMap_ = @ \cup {id}]

\* removeOrderFromBook() that leaves an emptied level in its side map
RemoveOrderFromBook_KeepEmptyLevel(b, id) ==
    LET o   == b.orders[id]
        lvs == SideLevels(b, o.side)
        b1  == IF o.price \in DOMAIN lvs
               THEN WithSideLevels(b, o.side,
                        MapPut(lvs, o.price,
                               PriceLevelRemoveOrder(lvs[o.price], id, o.remainingQuantity)))
               ELSE b
    IN  [b1 EXCEPT !.orderMap_ = @ \ {id}]

\* removeOrderFromBook() without its orderMap_.erase
RemoveOrderFromBook_NoIndexErase(b, id) ==
    LET o   == b.orders[id]
        lvs == SideLevels(b, o.side)
    IN  IF o.price \in DOMAIN lvs
        THEN LET lv == PriceLevelRemoveOrder(lvs[o.price], id, o.remainingQuantity)
             IN  WithSideLevels(b, o.side,
                     IF PriceLevelIsEmpty(lv) THEN MapErase(lvs, o.price)
                     ELSE MapPut(lvs, o.price, lv))
        ELSE b

RemoveOrderFromBook(b, id) ==
    LET o   == b.orders[id]
        lvs == SideLevels(b, o.side)
        b1  == IF o.price \in DOMAIN lvs
               THEN LET lv == PriceLevelRemoveOrder(lvs[o.price], id, o.remainingQuantity)
                    IN  WithSideLevels(b, o.side,
                            IF PriceLevelIsEmpty(lv) THEN MapErase(lvs, o.price)
                            ELSE MapPut(lvs, o.price, lv))
               ELSE b
    IN  [b1 EXCEPT !.orderMap_ = @ \ {id}]

\* the window without its eviction
PushRecentTrade_NoEvict(window, trade) == Append(window, trade)

\* executeTrade, lines 181-182: push_back, then the oldest is erased when
\* the window holds more than 100
PushRecentTrade(window, trade) ==
    LET w == Append(window, trade)
    IN  IF Len(w) > RECENT_TRADES_MAX THEN Tail(w) ELSE w

\* the side counters with the aggressor test dropped
SideVolumeAfter_BothSides(volume, isAggressorSide, quantity) == volume + quantity

\* executeTrade, lines 187-188: only the aggressor's side counter moves
SideVolumeAfter(volume, isAggressorSide, quantity) ==
    IF isAggressorSide THEN volume + quantity ELSE volume

ExecuteTrade(b, incoming, resting, quantity, price) ==
    LET inc == b.orders[incoming]
        rst == b.orders[resting]
        incomingIsBuy == inc.side = "BUY"
        buyerUserId  == IF incomingIsBuy THEN inc.traderId ELSE rst.traderId
        sellerUserId == IF incomingIsBuy THEN rst.traderId ELSE inc.traderId
        buyOrderId   == IF incomingIsBuy THEN incoming ELSE resting
        sellOrderId  == IF incomingIsBuy THEN resting ELSE incoming
        trade == [tradeId |-> Len(b.execs) + 1,
                  buyOrderId |-> buyOrderId, sellOrderId |-> sellOrderId,
                  price |-> price, quantity |-> quantity,
                  buyerUserId |-> buyerUserId, sellerUserId |-> sellerUserId,
                  aggressorSide |-> inc.side]
        inc1 == OrderFillWithTradeContext(inc, quantity, trade.tradeId,
                                          buyerUserId, sellerUserId)
        rst1 == OrderFillWithTradeContext(rst, quantity, trade.tradeId,
                                          buyerUserId, sellerUserId)
        exec == [incoming |-> incoming, resting |-> resting,
                 incomingRemaining |-> inc.remainingQuantity,
                 restingRemaining |-> rst.remainingQuantity,
                 incomingAfter |-> inc1.remainingQuantity,
                 restingAfter |-> rst1.remainingQuantity,
                 trade |-> trade]
    IN  [b EXCEPT
           !.orders = [@ EXCEPT ![incoming] = inc1, ![resting] = rst1],
           !.recentTrades_ = PushRecentTrade(@, trade),
           !.totalVolume_  = @ + quantity,
           !.tradeCount_   = @ + 1,
           !.buyVolume_    = SideVolumeAfter(@, incomingIsBuy, quantity),
           !.sellVolume_   = SideVolumeAfter(@, ~incomingIsBuy, quantity),
           !.execs         = Append(@, exec),
           !.sink          = IF b.logger_
                             THEN SendILP(SendILP(@, LogOrderRow(resting, rst1, TRUE)),
                                          LogTradeRow(trade, TRUE))
                             ELSE @]

\* begin() and rbegin() exchanged
BestOppositePrice_WrongEnd(side, opp) ==
    IF side = "BUY" THEN SetMax(DOMAIN opp) ELSE SetMin(DOMAIN opp)

\* matchOrder, lines 98-99: the best opposite price for the incoming side
BestOppositePrice(side, opp) ==
    IF side = "BUY" THEN SetMin(DOMAIN opp) ELSE SetMax(DOMAIN opp)

\* the price test with >= and <= : an equal price no longer crosses
Crosses_Strict(side, bestPrice, limit) ==
    ~ (\/ (side = "BUY"  /\ bestPrice >= limit)
       \/ (side = "SELL" /\ bestPrice <= limit))

\* matchOrder, lines 101-103: the loop goes on only when this holds
Crosses(side, bestPrice, limit) ==
    ~ (\/ (side = "BUY"  /\ bestPrice > limit)
       \/ (side = "SELL" /\ bestPrice < limit))

\* the match quantity without std::min
MatchQty_IncomingOnly(incomingRemaining, restingRemaining) ==
    incomingRemaining

MatchQty(incomingRemaining, restingRemaining) ==
    Min(incomingRemaining, restingRemaining)

\* The level object the local shared_ptr priceLevel refers to: it stays
\* readable (and empty) after removeOrderFromBook erased it from the map.
LevelAt(lvs, price) == IF price \in DOMAIN lvs THEN lvs[price] ELSE NewPriceLevel

\* matchOrder, lines 108-116: the inner loop over one price level
RECURSIVE MatchLevel(_, _, _)
MatchLevel(b, incoming, bestPrice) ==
    LET opp == SideLevels(b, OppositeSide(b.orders[incoming].side))
        lv  == LevelAt(opp, bestPrice)
        resting == PriceLevelGetFirstOrder(lv)
    IN  IF PriceLevelIsEmpty(lv) \/ ~ (b.orders[incoming].remainingQuantity > 0)
        THEN [book |-> b, isFullyMatched |-> FALSE]
        ELSE IF resting = 0
        THEN [book |-> b, isFullyMatched |-> FALSE]
        ELSE Let(ExecuteTrade(b, incoming, resting,
                              MatchQty(b.orders[incoming].remainingQuantity,
                                       b.orders[resting].remainingQuantity),
                              bestPrice),
                 LAMBDA b1 :
                   Let(IF b1.orders[resting].remainingQuantity = 0
                       THEN RemoveOrderFromBook(b1, resting) ELSE b1,
                       LAMBDA b2 :
                         IF b2.orders[incoming].remainingQuantity = 0
                         THEN [book |-> b2, isFullyMatched |-> TRUE]
                         ELSE MatchLevel(b2, incoming, bestPrice)))

\* matchOrder, lines 97-119: the outer loop over the opposite side.
\* diverged: an iteration changed nothing and left the loop condition true,
\* so the loop repeats the same iteration forever with mutex_ held.
RECURSIVE MatchLoop(_, _)
MatchLoop(b, incoming) ==
    LET inc == b.orders[incoming]
        opp == SideLevels(b, OppositeSide(inc.side))
        bestPrice == BestOppositePrice(inc.side, opp)
    IN  IF DOMAIN opp = {}
        THEN [book |-> b, isFullyMatched |-> FALSE, diverged |-> FALSE]
        ELSE IF ~ Crosses(inc.side, bestPrice, inc.price)
        THEN [book |-> b, isFullyMatched |-> FALSE, diverged |-> FALSE]
        ELSE Let(MatchLevel(b, incoming, bestPrice),
                 LAMBDA r :
                   Let(IF PriceLevelIsEmpty(
                             LevelAt(SideLevels(r.book, OppositeSide(inc.side)), bestPrice))
                       THEN WithSideLevels(r.book, OppositeSide(inc.side),
                                MapErase(SideLevels(r.book, OppositeSide(inc.side)),
                                         bestPrice))
                       ELSE r.book,
                       LAMBDA b3 :
                         IF r.isFullyMatched
                         THEN [book |-> b3, isFullyMatched |-> TRUE, diverged |-> FALSE]
                         ELSE IF b3 = b
                         THEN [book |-> b3, isFullyMatched |-> FALSE, diverged |-> TRUE]
                         ELSE MatchLoop(b3, incoming)))

\* the rest decision without the time-in-force test
RestsAfterMatch_IgnoreTIF(isFullyMatched, tif) == ~ isFullyMatched

\* matchOrder, lines 121-122: what is left of the incoming order rests
RestsAfterMatch(isFullyMatched, tif) == ~ isFullyMatched /\ tif # "IOC"

MatchOrder(b, incoming) ==
    Let(MatchLoop(b, incoming),
        LAMBDA r :
          IF r.diverged THEN r
          ELSE [r EXCEPT !.book =
                   IF RestsAfterMatch(r.isFullyMatched, b.orders[incoming].timeInForce)
                   THEN AddToBook(r.book, incoming) ELSE r.book])

\* cancelOrder() without its removeOrderFromBook
CancelOrder_KeepInBook(b, id) ==
    IF id \notin b.orderMap_ THEN b
    ELSE IF IsTerminal(b.orders[id].status) THEN b
    ELSE [b EXCEPT !.orders[id] = OrderCancel(b.orders[id])]

\* cancelOrder, lines 56-67
CancelOrder(b, id) ==
    IF id \notin b.orderMap_ THEN b
    ELSE IF IsTerminal(b.orders[id].status) THEN b
    ELSE Let(RemoveOrderFromBook(b, id),
             LAMBDA b1 : [b1 EXCEPT !.orders[id] = OrderCancel(b1.orders[id])])

\* expirePendingOrders, lines 208-218: the orders collected into toExpire
ExpireEligible(o) ==
    /\ o.status \in {"NEW", "PARTIALLY_FILLED"}
    /\ o.age >= ORDER_EXPIRY_SECONDS

ToExpire(b) == {id \in b.orderMap_ : ExpireEligible(b.orders[id])}

\* expirePendingOrders, lines 220-223
RECURSIVE ExpireAll(_, _)
ExpireAll(b, ids) ==
    IF ids = {} THEN b
    ELSE Let(CHOOSE x \in ids : \A y \in ids : x <= y,
             LAMBDA id :
               Let(RemoveOrderFromBook(b, id),
                   LAMBDA b1 :
                     Let([b1 EXCEPT !.orders[id] = OrderExpire(b1.orders[id])],
                         LAMBDA b2 : ExpireAll(b2, ids \ {id}))))

ExpirePendingOrders(b) == Let(ToExpire(b), LAMBDA ids : ExpireAll(b, ids))

\* ---------------------------------------------------------------- actions
SetBook(b) ==
    /\ orders' = b.orders
    /\ buyLevels_' = b.buyLevels_
    /\ sellLevels_' = b.sellLevels_
    /\ orderMap_' = b.orderMap_
    /\ recentTrades_' = b.recentTrades_
    /\ totalVolume_' = b.totalVolume_
    /\ buyVolume_' = b.buyVolume_
    /\ sellVolume_' = b.sellVolume_
    /\ tradeCount_' = b.tradeCount_
    /\ execs' = b.execs
    /\ logger_' = b.logger_
    /\ sink' = b.sink

EmptyMap == [p \in {} |-> NewPriceLevel]

\* the order ids a run can construct
SinkIds == 1..SetMax({MaxOrders, MaxRingSteps, MaxRotationSteps})

\* the value of a row variable before its row is built
NoRow == [order_id |-> 0, order_status_event |-> "", trade_id |-> NA_TRADE_ID,
          bookMutexHeld |-> FALSE]

\* a thread that is not inside a call
Idle == [pc |-> "idle", order |-> 0, row |-> NoRow]

CallersInit == [t \in Traders |-> Idle]

\* no thread is inside logOrder / logTrade
NoCall == [pc |-> "idle", row |-> 0, connects |-> 0, sends |-> 0]

\* The Logger connected at construction and the endpoint stays up: every
\* sendILP is one successful send.
SinkUp ==
    /\ sock_ = "connected"
    /\ endpoint = TRUE
    /\ call = NoCall
    /\ terminated = FALSE

\* CircularRingCoordinator as constructed: start() has not been called
RingOff ==
    /\ step_ = 0
    /\ ringPrice_ = 0
    /\ ringRunning_ = FALSE
    /\ members = <<>>
    /\ ringTaken = <<>>
    /\ ringPlaced = <<>>

\* TradingApplication::start() in its main loop: the traders run, every
\* book's expiry thread is in its loop, nothing has been destroyed
AppRunning ==
    /\ phase = "running"
    /\ loggerAlive = TRUE
    /\ traderRunning = TRUE
    /\ expiryRunning_ = TRUE
    /\ expiryPc = "sleep"
    /\ lateCall = FALSE

\* no depth request is being served
NoDepth == [pc |-> "idle", seenBuy |-> <<>>, seenSell |-> <<>>, bids |-> <<>>, asks |-> <<>>]

DepthIdle == depth = NoDepth

\* MockTrader(): the wash thread before its first pair
WashAtLoop == [pc |-> "loop", washPrice |-> 0]

TradersOff ==
    /\ type_ = <<>>
    /\ wash = WashAtLoop
    /\ washLegs = <<>>

BookInit ==
    /\ orders = <<>>
    /\ buyLevels_ = EmptyMap
    /\ sellLevels_ = EmptyMap
    /\ orderMap_ = {}
    /\ recentTrades_ = <<>>
    /\ totalVolume_ = 0
    /\ buyVolume_ = 0
    /\ sellVolume_ = 0
    /\ tradeCount_ = 0
    /\ execs = <<>>
    /\ mutex_ = "free"
    /\ sink = [id \in SinkIds |-> <<>>]
    /\ callers = CallersInit
    /\ toExpire = <<>>
    /\ userOrders_ = {}

\* OrderBook(): logger defaults to nullptr
Init == BookInit /\ logger_ = FALSE /\ SinkUp /\ RingOff /\ AppRunning /\ DepthIdle /\ TradersOff

\* the ids of a set in ascending order
RECURSIVE AscendingSeq(_)
AscendingSeq(S) ==
    IF S = {} THEN <<>>
    ELSE Let(SetMin(S), LAMBDA x : <<x>> \o AscendingSeq(S \ {x}))

\* A caller constructs an Order and hands it to OrderBook::addOrder.  When
\* the matching loop never ends, addOrder never returns and the lock
\* guard is never released.
SubmitWith(maxOrders, side, price, quantity, tif) ==
    /\ UNCHANGED outsideVars
    /\ mutex_ = "free"
    /\ Len(orders) < maxOrders
    /\ \E b0 \in {[Book EXCEPT !.orders =
                       Append(@, NewOrder(side, price, quantity, tif,
                                          TraderOf(Len(orders) + 1)))]} :
         \E r \in {MatchOrder(b0, Len(orders) + 1)} :
           /\ SetBook(r.book)
           /\ mutex_' = IF r.diverged THEN "held" ELSE "free"
    /\ UNCHANGED <<callers, toExpire, userOrders_>>

Submit(side, price, quantity, tif) == SubmitWith(MaxOrders, side, price, quantity, tif)

\* OrderBook::cancelOrder(orderId); id 0 is an id no order has.
Cancel(id) ==
    /\ UNCHANGED outsideVars
    /\ mutex_ = "free"
    /\ \E b \in {CancelOrder(Book, id)} : SetBook(b)
    /\ UNCHANGED <<mutex_, callers, toExpire, userOrders_>>

\* One wake of the expiry thread: expirePendingOrders() up to the release
\* of the book lock.  With a logger the swept orders are logged afterwards,
\* one logOrder at a time (ExpireLog); the thread sweeps again only when
\* it is through with them.
Expire ==
    /\ UNCHANGED outsideVars
    /\ mutex_ = "free"
    /\ toExpire = <<>>
    /\ \E b \in {ExpirePendingOrders(Book)} : SetBook(b)
    /\ toExpire' = IF logger_ THEN AscendingSeq(ToExpire(Book)) ELSE <<>>
    /\ UNCHANGED <<mutex_, callers, userOrders_>>

\* Time passes until every order constructed up to id k is at least
\* ORDER_EXPIRY_SECONDS old.  expirePendingOrders only ever compares
\* now - submitTimestamp_ (whole seconds) with ORDER_EXPIRY_SECONDS, and an
\* order constructed earlier is never younger than one constructed later,
\* so an age is kept as 0 (below the horizon) or ORDER_EXPIRY_SECONDS (at
\* or beyond it), and only for the orders the sweep can still visit.
Elapse(k) ==
    /\ UNCHANGED outsideVars
    /\ \E id \in orderMap_ : id <= k /\ orders[id].age < ORDER_EXPIRY_SECONDS
    /\ orders' = [id \in DOMAIN orders |->
                    IF id \in orderMap_ /\ id <= k
                    THEN [orders[id] EXCEPT !.age = ORDER_EXPIRY_SECONDS]
                    ELSE orders[id]]
    /\ UNCHANGED <<buyLevels_, sellLevels_, orderMap_, recentTrades_,
                   totalVolume_, buyVolume_, sellVolume_, tradeCount_, execs, mutex_,
                   logger_, sink, callers, toExpire, userOrders_>>

SubmitAny ==
    \E side \in Sides, price \in Prices, quantity \in Quantities, tif \in TIFs :
        Submit(side, price, quantity, tif)

CancelAny == \E id \in 0..Len(orders) : Cancel(id)

ElapseAny == \E k \in 1..Len(orders) : Elapse(k)

Next == SubmitAny \/ CancelAny \/ Expire \/ ElapseAny

Spec == Init /\ [][Next]_vars

TypeOK ==
    /\ Len(orders) <= MaxOrders
    /\ orderMap_ \subseteq DOMAIN orders
    /\ mutex_ \in {"free", "held"}
    /\ logger_ \in BOOLEAN
    /\ DOMAIN sink = SinkIds
    /\ \A t \in Traders :
          callers[t].pc \in {"idle", "addOrder", "logOrder", "sendILP", "confirm"}
    /\ userOrders_ \subseteq DOMAIN orders

\* ------------------------------------------------- the book with its callers
\* main.cpp constructs every book with the application's Logger.
LogInit == BookInit /\ logger_ = TRUE /\ SinkUp /\ RingOff /\ AppRunning /\ DepthIdle /\ TradersOff

\* The trader at the console (main.cpp); the other trader is a retail
\* MockTrader thread.
USER == "T1"

\* What a caller can put into an order: the console reads the quantity
\* unchecked; runRetail draws it from 1..100.  Every caller quotes the
\* same price here, so that any two orders of opposite sides cross.
CallerQuantities(t) == IF t = USER THEN Quantities ELSE Quantities \ {0}

CallerPrices(t) == {MaxPrice}

\* handleBuyOrder / handleSellOrder up to the return of addOrder, and
\* runRetail up to the return of addOrder: the thread constructs a GTC
\* order under its trader id and submits it.  When matching never ends the
\* thread stays inside addOrder with the lock.
CallerSubmit(t, side, price, quantity) ==
    /\ UNCHANGED outsideVars
    /\ callers[t].pc = "idle"
    /\ mutex_ = "free"
    /\ Len(orders) < MaxOrders
    /\ \E b0 \in {[Book EXCEPT !.orders =
                       Append(@, NewOrder(side, price, quantity, "GTC", t))]} :
         \E r \in {MatchOrder(b0, Len(orders) + 1)} :
           /\ SetBook(r.book)
           /\ mutex_' = IF r.diverged THEN "held" ELSE "free"
           /\ callers' = [callers EXCEPT ![t] =
                              [pc |-> IF r.diverged THEN "addOrder" ELSE "logOrder",
                               order |-> Len(orders) + 1, row |-> NoRow]]
    /\ UNCHANGED <<toExpire, userOrders_>>

\* The caller's logOrder(*order), first half: the row is built from the
\* order as it is now, without the book lock.
CallerLogOrder(t) ==
    /\ UNCHANGED outsideVars
    /\ callers[t].pc = "logOrder"
    /\ callers' = [callers EXCEPT ![t].pc = "sendILP",
                                  ![t].row = LogOrderRow(callers[t].order,
                                                         orders[callers[t].order], FALSE)]
    /\ UNCHANGED <<orders, buyLevels_, sellLevels_, orderMap_, recentTrades_,
                   totalVolume_, buyVolume_, sellVolume_, tradeCount_, execs, mutex_,
                   logger_, sink, toExpire, userOrders_>>

\* The caller's logOrder, second half: the row is sent under
\* Logger::mutex_.  The console then keeps the order in userOrders_.
CallerSendILP(t) ==
    /\ UNCHANGED outsideVars
    /\ callers[t].pc = "sendILP"
    /\ sink' = SendILP(sink, callers[t].row)
    /\ callers' = [callers EXCEPT ![t] = Idle]
    /\ userOrders_' = IF t = USER THEN userOrders_ \cup {callers[t].order}
                      ELSE userOrders_
    /\ UNCHANGED <<orders, buyLevels_, sellLevels_, orderMap_, recentTrades_,
                   totalVolume_, buyVolume_, sellVolume_, tradeCount_, execs, mutex_,
                   logger_, toExpire>>

\* handleCancelOrder up to its second prompt: the order id is looked up
\* in userOrders_ and the order's status and quantity are read without
\* the book lock.
HandleCancelOrder(orderId) ==
    /\ UNCHANGED outsideVars
    /\ callers[USER].pc = "idle"
    /\ IF orderId \notin userOrders_
       THEN UNCHANGED callers          \* "Order not found"
       ELSE IF orders[orderId].status = "CANCELLED"
       THEN UNCHANGED callers          \* "Order is already cancelled."
       ELSE IF orders[orderId].status \in {"FILLED", "EXPIRED"}
       THEN UNCHANGED callers          \* "Filled or expired orders cannot be cancelled."
       ELSE IF orders[orderId].quantity <= 0
       THEN UNCHANGED callers          \* "Order quantity is zero or negative."
       ELSE callers' = [callers EXCEPT ![USER] =
                           [pc |-> "confirm", order |-> orderId, row |-> NoRow]]
    /\ UNCHANGED <<orders, buyLevels_, sellLevels_, orderMap_, recentTrades_,
                   totalVolume_, buyVolume_, sellVolume_, tradeCount_, execs, mutex_,
                   logger_, sink, toExpire, userOrders_>>

\* handleCancelOrder from the answer to its second prompt.  With choice 2:
\* cancelOrder under the book lock, then cancel() on the order through
\* userOrders_, then logOrder.  After cancelOrder has returned the order
\* is terminal and no thread writes to it again, so the three are one step.
ConfirmCancel(choice) ==
    /\ UNCHANGED outsideVars
    /\ callers[USER].pc = "confirm"
    /\ callers' = [callers EXCEPT ![USER] = Idle]
    /\ IF choice = 1
       THEN UNCHANGED <<orders, buyLevels_, sellLevels_, orderMap_, recentTrades_,
                           totalVolume_, buyVolume_, sellVolume_, tradeCount_, execs,
                           logger_, sink>>
       ELSE IF choice = 2
       THEN /\ mutex_ = "free"
            /\ \E id \in {callers[USER].order} :
                 \E b1 \in {CancelOrder(Book, id)} :
                   \E b2 \in {[b1 EXCEPT !.orders[id] = OrderCancel(@)]} :
                     SetBook([b2 EXCEPT !.sink =
                                 SendILP(@, LogOrderRow(id, b2.orders[id], FALSE))])
       ELSE UNCHANGED <<orders, buyLevels_, sellLevels_, orderMap_, recentTrades_,
                           totalVolume_, buyVolume_, sellVolume_, tradeCount_, execs,
                           logger_, sink>>
    /\ UNCHANGED <<mutex_, toExpire, userOrders_>>

\* expirePendingOrders, lines 227-231: one logOrder of the loop that
\* follows the release of the book lock.
ExpireLog ==
    /\ UNCHANGED outsideVars
    /\ toExpire # <<>>
    /\ sink' = SendILP(sink, LogOrderRow(Head(toExpire), orders[Head(toExpire)], FALSE))
    /\ toExpire' = Tail(toExpire)
    /\ UNCHANGED <<orders, buyLevels_, sellLevels_, orderMap_, recentTrades_,
                   totalVolume_, buyVolume_, sellVolume_, tradeCount_, execs, mutex_,
                   logger_, callers, userOrders_>>

CallerSubmitAny ==
    \E t \in Traders, side \in Sides :
      \E price \in CallerPrices(t), quantity \in CallerQuantities(t) :
        CallerSubmit(t, side, price, quantity)

CallerLogOrderAny == \E t \in Traders : CallerLogOrder(t)

CallerSendILPAny == \E t \in Traders : CallerSendILP(t)

HandleCancelOrderAny == \E orderId \in 0..Len(orders) : HandleCancelOrder(orderId)

ConfirmCancelAny == \E choice \in 1..3 : ConfirmCancel(choice)

LogNext ==
    \/ CallerSubmitAny
    \/ CallerLogOrderAny
    \/ CallerSendILPAny
    \/ HandleCancelOrderAny
    \/ ConfirmCancelAny
    \/ Expire
    \/ ExpireLog
    \/ ElapseAny

LogSpec == LogInit /\ [][LogNext]_vars

\* ------------------------------------------------ the Logger and its endpoint
\* Logger(): sock_ is INVALID_SOCK and connectToQuestDB is tried once;
\* when it fails a warning is printed and construction goes on.
SinkInit ==
    /\ BookInit
    /\ logger_ = TRUE
    /\ endpoint \in BOOLEAN
    /\ sock_ = ConnectToQuestDB(endpoint)
    /\ call = NoCall
    /\ terminated = FALSE
    /\ RingOff
    /\ AppRunning
    /\ DepthIdle
    /\ TradersOff

\* the line of the n-th call
LineOf(n) == [NoRow EXCEPT !.order_id = n, !.order_status_event = "ORDER_NEW"]

BookAndCallers == <<orders, buyLevels_, sellLevels_, orderMap_, recentTrades_,
                    totalVolume_, buyVolume_, sellVolume_, tradeCount_, execs, mutex_,
                    logger_, callers, toExpire, userOrders_, ringVars, appVars, sideVars>>

\* logOrder / logTrade, lines 203-204 and 275-276: a thread has built its
\* line, takes Logger::mutex_ and enters sendILP.
LogCall ==
    /\ ~ terminated
    /\ call.pc = "idle"
    /\ call.row < MaxOrders
    /\ call' = [pc |-> "L299", row |-> call.row + 1, connects |-> 0, sends |-> 0]
    /\ UNCHANGED <<BookAndCallers, sink, sock_, endpoint, terminated>>

\* sendILP, lines 299-300: without a socket, one connect; still without
\* one, return.
SendILPEntry ==
    /\ ~ terminated
    /\ call.pc = "L299"
    /\ \E s \in {IF sock_ = INVALID_SOCK THEN ConnectToQuestDB(endpoint) ELSE sock_} :
         /\ sock_' = s
         /\ call' = [call EXCEPT
                       !.connects = IF sock_ = INVALID_SOCK THEN @ + 1 ELSE @,
                       !.pc = IF s = INVALID_SOCK THEN "idle" ELSE "L304"]
    /\ UNCHANGED <<BookAndCallers, sink, endpoint, terminated>>

\* sendILP, lines 304-307: the send; when it returns <= 0 the socket is
\* closed and sock_ is INVALID_SOCK.
SendILPSend ==
    /\ ~ terminated
    /\ call.pc = "L304"
    /\ \E out \in SendOutcomes(sock_) :
         /\ terminated' = (out = "SIGPIPE")
         /\ sink' = IF out = "sent" /\ Delivers(sock_)
                    THEN SendILP(sink, LineOf(call.row)) ELSE sink
         /\ sock_' = IF out = "error" THEN INVALID_SOCK ELSE SockAfterSend(sock_)
         /\ call' = [call EXCEPT !.sends = @ + 1,
                                 !.pc = CASE out = "sent"  -> "idle"
                                          [] out = "error" -> "L308"
                                          [] OTHER         -> "L304"]
    /\ UNCHANGED <<BookAndCallers, endpoint>>

\* sendILP, line 308: the connect after a failed send.
SendILPReconnect ==
    /\ ~ terminated
    /\ call.pc = "L308"
    /\ sock_' = ConnectToQuestDB(endpoint)
    /\ call' = [call EXCEPT !.connects = @ + 1,
                            !.pc = IF endpoint THEN "L309" ELSE "idle"]
    /\ UNCHANGED <<BookAndCallers, sink, endpoint, terminated>>

\* sendILP, line 309: the second send; what it returns is not looked at.
SendILPResend ==
    /\ ~ terminated
    /\ call.pc = "L309"
    /\ \E out \in SendOutcomes(sock_) :
         /\ terminated' = (out = "SIGPIPE")
         /\ sink' = IF out = "sent" /\ Delivers(sock_)
                    THEN SendILP(sink, LineOf(call.row)) ELSE sink
         /\ sock_' = SockAfterSend(sock_)
         /\ call' = [call EXCEPT !.sends = @ + 1,
                                 !.pc = IF out = "SIGPIPE" THEN "L309" ELSE "idle"]
    /\ UNCHANGED <<BookAndCallers, endpoint>>

\* The endpoint goes away: it stops listening, and a connection it had
\* is closed by it or reset.
EndpointStop ==
    /\ ~ terminated
    /\ endpoint
    /\ endpoint' = FALSE
    /\ sock_' \in (IF sock_ = "connected" THEN {"peer_closed", "reset"} ELSE {sock_})
    /\ UNCHANGED <<BookAndCallers, sink, call, terminated>>

\* The endpoint comes (back) up.
EndpointStart ==
    /\ ~ terminated
    /\ ~ endpoint
    /\ endpoint' = TRUE
    /\ UNCHANGED <<BookAndCallers, sink, sock_, call, terminated>>

SinkNext ==
    \/ LogCall
    \/ SendILPEntry
    \/ SendILPSend
    \/ SendILPReconnect
    \/ SendILPResend
    \/ EndpointStop
    \/ EndpointStart

SinkSpec == SinkInit /\ [][SinkNext]_vars

\* ------------------------------------------------- the circular trading ring
CIRCULAR_RING_IDS == <<2500, 2600, 2700, 2800>>

\* the step table, CYCLE[k + 1] for step k
CYCLE ==
    << [memberIdx |-> 0, side |-> "BUY",  setPrice |-> TRUE],
       [memberIdx |-> 1, side |-> "SELL", setPrice |-> FALSE],
       [memberIdx |-> 1, side |-> "BUY",  setPrice |-> TRUE],
       [memberIdx |-> 2, side |-> "SELL", setPrice |-> FALSE],
       [memberIdx |-> 2, side |-> "BUY",  setPrice |-> TRUE],
       [memberIdx |-> 3, side |-> "SELL", setPrice |-> FALSE],
       [memberIdx |-> 3, side |-> "BUY",  setPrice |-> TRUE],
       [memberIdx |-> 0, side |-> "SELL", setPrice |-> FALSE] >>

RingMembers == 0..3

\* a worker at the top of its loop, about to take mtx_ and wait
AtLock == [pc |-> "lock", price |-> 0, side |-> "BUY", step |-> 0, order |-> 0,
           pause |-> ""]

\* CircularRingCoordinator::start() with CIRCULAR_TRADING_ACTIVE switched
\* on, after init() with the book and the Logger: the four workers are
\* spawned.  (As shipped the switch is off and start() returns at once.)
RingInit ==
    /\ BookInit
    /\ logger_ = TRUE
    /\ SinkUp
    /\ step_ = 0
    /\ ringPrice_ = 0
    /\ ringRunning_ = TRUE
    /\ members = [m \in RingMembers |-> AtLock]
    /\ ringTaken = <<>>
    /\ ringPlaced = <<>>
    /\ AppRunning
    /\ DepthIdle
    /\ TradersOff

\* a step's price from a fresh market price whatever the step
RingStepPrice_AlwaysFresh(setPrice, fresh, ringPrice) == fresh

\* ringMemberLoop, lines 172-183: the price of a step; fresh is the market
\* price with its jitter, rounded
RingStepPrice(setPrice, fresh, ringPrice) == IF setPrice THEN fresh ELSE ringPrice

\* the wait predicate's second half, line 166, for every worker
IsTurn_Always(step, m) == TRUE

\* the wait predicate's second half, line 166: the step is this worker's
IsTurn(step, m) == CYCLE[(step % 8) + 1].memberIdx = m

\* the pause of a worker that reads the step counter as a multiple of 8
\* or not: always the short one
PauseFor_AlwaysStep(step) == "CIRCULAR_STEP_MS"

\* ringMemberLoop, lines 209-212: the pause chosen from the step counter
\* as read at line 209
PauseFor(step) == IF step % 8 = 0 THEN "CIRCULAR_PAUSE_MS" ELSE "CIRCULAR_STEP_MS"

\* notify_all: every worker blocked in cv_.wait goes back to take mtx_
\* and test its predicate
NotifyAll(ms) ==
    [k \in DOMAIN ms |-> IF ms[k].pc = "blocked" THEN [ms[k] EXCEPT !.pc = "lock"] ELSE ms[k]]

BookAndSink == <<orders, buyLevels_, sellLevels_, orderMap_, recentTrades_,
                 totalVolume_, buyVolume_, sellVolume_, tradeCount_, execs, mutex_,
                 logger_, sink, callers, toExpire, userOrders_, sinkVars, appVars, sideVars>>

\* ringMemberLoop, lines 162-185, under mtx_: the wait predicate is
\* tested; the worker blocks, or leaves its loop when the ring is
\* stopped, or takes the step that is its turn.  maxSteps bounds the run;
\* freshPrices are the market prices, jitter applied, the worker can read.
RingTurnWith(m, maxSteps, freshPrices) ==
    /\ members[m].pc = "lock"
    /\ IF ~ ringRunning_
       THEN /\ members' = [members EXCEPT ![m].pc = "exited"]
            /\ UNCHANGED <<step_, ringPrice_, ringTaken>>
       ELSE IF ~ IsTurn(step_, m)
       THEN /\ members' = [members EXCEPT ![m].pc = "blocked"]
            /\ UNCHANGED <<step_, ringPrice_, ringTaken>>
       ELSE /\ step_ < maxSteps
            /\ \E fresh \in freshPrices :
                 \E spec \in {CYCLE[(step_ % 8) + 1]} :
                   \E price \in {RingStepPrice(spec.setPrice, fresh, ringPrice_)} :
                     /\ ringPrice_' = IF spec.setPrice THEN price ELSE ringPrice_
                     /\ members' = [members EXCEPT ![m] =
                                       [pc |-> "place", price |-> price, side |-> spec.side,
                                        step |-> step_, order |-> 0, pause |-> ""]]
                     /\ ringTaken' = Append(ringTaken,
                                        [memberIdx |-> m, side |-> spec.side,
                                         setPrice |-> spec.setPrice, price |-> price])
            /\ step_' = step_ + 1
    /\ UNCHANGED <<BookAndSink, ringRunning_, ringPlaced>>

RingTurn(m) == RingTurnWith(m, MaxRingSteps, Prices)

\* ringMemberLoop, lines 188-197: the order is constructed and submitted.
RingPlace(m) ==
    /\ members[m].pc = "place"
    /\ mutex_ = "free"
    /\ \E b0 \in {[Book EXCEPT !.orders =
                       Append(@, NewOrder(members[m].side, members[m].price,
                                          CIRCULAR_QUANTITY, "GTC",
                                          CIRCULAR_RING_IDS[m + 1]))]} :
         \E r \in {MatchOrder(b0, Len(orders) + 1)} :
           /\ SetBook(r.book)
           /\ mutex_' = IF r.diverged THEN "held" ELSE "free"
           /\ members' = [members EXCEPT
                            ![m].pc = IF r.diverged THEN "addOrder" ELSE "log",
                            ![m].order = Len(orders) + 1]
    /\ ringPlaced' = Append(ringPlaced, members[m].step)
    /\ UNCHANGED <<callers, toExpire, userOrders_, sinkVars, appVars, sideVars,
                   step_, ringPrice_, ringRunning_, ringTaken>>

\* ringMemberLoop, line 198: logOrder of the order just submitted.
RingLog(m) ==
    /\ members[m].pc = "log"
    /\ sink' = SendILP(sink, LogOrderRow(members[m].order, orders[members[m].order], FALSE))
    /\ members' = [members EXCEPT ![m].pc = "pause"]
    /\ UNCHANGED <<orders, buyLevels_, sellLevels_, orderMap_, recentTrades_,
                   totalVolume_, buyVolume_, sellVolume_, tradeCount_, execs, mutex_,
                   logger_, callers, toExpire, userOrders_, sinkVars, appVars, sideVars,
                   step_, ringPrice_, ringRunning_, ringTaken, ringPlaced>>

\* ringMemberLoop, lines 206-210: mtx_ is taken again and the pause is
\* chosen from step_ as it is now.
RingPause(m) ==
    /\ members[m].pc = "pause"
    /\ members' = [members EXCEPT ![m].pc = "sleep", ![m].pause = PauseFor(step_)]
    /\ UNCHANGED <<BookAndSink, step_, ringPrice_, ringRunning_, ringTaken, ringPlaced>>

\* the loop's last statement without its notify_all
RingNotify_NoNotify(m) ==
    /\ members[m].pc = "sleep"
    /\ members' = [members EXCEPT ![m] = AtLock]
    /\ UNCHANGED <<BookAndSink, step_, ringPrice_, ringRunning_, ringTaken, ringPlaced>>

\* ringMemberLoop, lines 211-216: the pause, then notify_all, then the
\* top of the loop again.
RingNotify(m) ==
    /\ members[m].pc = "sleep"
    /\ members' = NotifyAll([members EXCEPT ![m] = AtLock])
    /\ UNCHANGED <<BookAndSink, step_, ringPrice_, ringRunning_, ringTaken, ringPlaced>>

\* cv_.wait may return without a notify; the predicate is then tested again.
RingSpuriousWake(m) ==
    /\ members[m].pc = "blocked"
    /\ members' = [members EXCEPT ![m].pc = "lock"]
    /\ UNCHANGED <<BookAndSink, step_, ringPrice_, ringRunning_, ringTaken, ringPlaced>>

\* stop() without its notify_all
RingStop_NoNotify ==
    /\ ringRunning_
    /\ ringRunning_' = FALSE
    /\ UNCHANGED <<BookAndSink, step_, ringPrice_, members, ringTaken, ringPlaced>>

\* stop(), lines 131-135: running_ is cleared under mtx_ and every waiter
\* is notified; the joins that follow wait for the workers to leave.
RingStop ==
    /\ ringRunning_
    /\ ringRunning_' = FALSE
    /\ members' = NotifyAll(members)
    /\ UNCHANGED <<BookAndSink, step_, ringPrice_, ringTaken, ringPlaced>>

RingNext ==
    \/ \E m \in RingMembers : RingTurn(m)
    \/ \E m \in RingMembers : RingPlace(m)
    \/ \E m \in RingMembers : RingLog(m)
    \/ \E m \in RingMembers : RingPause(m)
    \/ \E m \in RingMembers : RingNotify(m)
    \/ \E m \in RingMembers : RingSpuriousWake(m)
    \/ RingStop

RingSpec == RingInit /\ [][RingNext]_vars

\* The ring with every worker thread scheduled again and again: a worker
\* that can take its next statement eventually takes it (its sleeps are
\* finite, mtx_ is held only for a few statements).  A wait that returns
\* without a notify, and the call of stop(), are not promised.
RingFairSpec ==
    /\ RingSpec
    /\ \A m \in RingMembers :
         WF_vars(RingTurn(m) \/ RingPlace(m) \/ RingLog(m) \/ RingPause(m) \/ RingNotify(m))

\* A whole rotation of the ring (steps 0..7), with the market price at
\* rest and the ring never stopped.
RotationTurn(m) == RingTurnWith(m, MaxRotationSteps, {MaxPrice})

RotationNext ==
    \/ \E m \in RingMembers : RotationTurn(m)
    \/ \E m \in RingMembers : RingPlace(m)
    \/ \E m \in RingMembers : RingLog(m)
    \/ \E m \in RingMembers : RingPause(m)
    \/ \E m \in RingMembers : RingNotify(m)
    \/ \E m \in RingMembers : RingSpuriousWake(m)

RotationSpec == RingInit /\ [][RotationNext]_vars

\* The ring left running, the market price at rest, every worker thread
\* scheduled again and again: a worker that can take its next statement
\* eventually takes it.  A wait that returns without a notify is not
\* promised.
ProgressTurn(m) == RingTurnWith(m, MaxRingSteps, {MaxPrice})

ProgressNext ==
    \/ \E m \in RingMembers : ProgressTurn(m)
    \/ \E m \in RingMembers : RingPlace(m)
    \/ \E m \in RingMembers : RingLog(m)
    \/ \E m \in RingMembers : RingPause(m)
    \/ \E m \in RingMembers : RingNotify(m)
    \/ \E m \in RingMembers : RingSpuriousWake(m)

ProgressSpec ==
    /\ RingInit
    /\ [][ProgressNext]_vars
    /\ \A m \in RingMembers :
         WF_vars(ProgressTurn(m) \/ RingPlace(m) \/ RingLog(m) \/ RingPause(m) \/ RingNotify(m))

\* ------------------------------------------------------------- shutdown
\* The application with one retail MockTrader on one book, from its main
\* loop to the end of ~TradingApplication.
ShutdownInit == BookInit /\ logger_ = TRUE /\ SinkUp /\ RingOff /\ AppRunning /\ DepthIdle /\ TradersOff

RETAIL == "T2"

\* runRetail, lines 305-324: the loop test, then one order submitted.
RetailSubmit ==
    /\ traderRunning
    /\ \E side \in Sides :
         \E price \in CallerPrices(RETAIL), quantity \in CallerQuantities(RETAIL) :
           CallerSubmit(RETAIL, side, price, quantity)

\* runRetail, line 325: its logOrder, in the same two steps as any caller's.
RetailLogOrder == CallerLogOrder(RETAIL) \/ CallerSendILP(RETAIL)

BookOnly == <<orders, buyLevels_, sellLevels_, orderMap_, recentTrades_,
              totalVolume_, buyVolume_, sellVolume_, tradeCount_, execs, mutex_,
              logger_, callers, userOrders_>>

\* the loop test of the expiry thread with the flag ignored
ExpiryTest_IgnoreFlag ==
    /\ expiryPc = "test"
    /\ expiryPc' = "sleep"
    /\ UNCHANGED <<BookOnly, sink, toExpire, sinkVars, ringVars, sideVars,
                   phase, loggerAlive, traderRunning, expiryRunning_, lateCall>>

\* The expiry thread's loop, line 28: the test of expiryRunning_.
ExpiryTest ==
    /\ expiryPc = "test"
    /\ expiryPc' = IF expiryRunning_ THEN "sleep" ELSE "exited"
    /\ UNCHANGED <<BookOnly, sink, toExpire, sinkVars, ringVars, sideVars,
                   phase, loggerAlive, traderRunning, expiryRunning_, lateCall>>

\* The expiry thread's loop, lines 29-30 (201-224): after its sleep,
\* expirePendingOrders() up to the release of the book lock.
ExpirySweep ==
    /\ expiryPc = "sleep"
    /\ mutex_ = "free"
    /\ \E b \in {ExpirePendingOrders(Book)} : SetBook(b)
    /\ toExpire' = AscendingSeq(ToExpire(Book))
    /\ expiryPc' = IF ToExpire(Book) = {} THEN "test" ELSE "log"
    /\ UNCHANGED <<mutex_, callers, userOrders_, sinkVars, ringVars, sideVars,
                   phase, loggerAlive, traderRunning, expiryRunning_, lateCall>>

\* expirePendingOrders, lines 226-231: one logOrder through logger_.
\* logger_ is the address of TradingApplication::logger_; once that
\* object is destroyed the call is on a dead object: its socket has been
\* closed but sock_ still holds the descriptor's number, so the line is
\* sent on whatever that number now names, or sendILP reconnects and
\* sends it, or it is lost.
ExpiryLog ==
    /\ expiryPc = "log"
    /\ \E row \in {LogOrderRow(Head(toExpire), orders[Head(toExpire)], FALSE)} :
         sink' \in (IF loggerAlive THEN {SendILP(sink, row)}
                    ELSE {SendILP(sink, row), sink})
    /\ lateCall' = (lateCall \/ ~ loggerAlive)
    /\ toExpire' = Tail(toExpire)
    /\ expiryPc' = IF Len(toExpire) = 1 THEN "test" ELSE "log"
    /\ UNCHANGED <<orders, buyLevels_, sellLevels_, orderMap_, recentTrades_,
                   totalVolume_, buyVolume_, sellVolume_, tradeCount_, execs, mutex_,
                   logger_, callers, userOrders_, sinkVars, ringVars, sideVars,
                   phase, loggerAlive, traderRunning, expiryRunning_>>

\* start(), lines 313-317: the main loop has ended (a signal or 'e');
\* MockTrader::stop() clears running_ and joins.
StopTraders ==
    /\ phase = "running"
    /\ phase' = "joinTraders"
    /\ traderRunning' = FALSE
    /\ UNCHANGED <<BookOnly, sink, toExpire, sinkVars, ringVars, sideVars,
                   loggerAlive, expiryRunning_, expiryPc, lateCall>>

\* start(), lines 317-326: the trader's thread has left its loop and is
\* joined; the book server and the display thread are joined; start()
\* returns.
JoinTraders ==
    /\ phase = "joinTraders"
    /\ callers[RETAIL].pc = "idle"
    /\ phase' = "destroyLogger"
    /\ UNCHANGED <<BookOnly, sink, toExpire, sinkVars, ringVars, sideVars,
                   loggerAlive, traderRunning, expiryRunning_, expiryPc, lateCall>>

\* ~TradingApplication: the members go in the reverse order of their
\* declaration (main.cpp 1400-1424), so logger_ (1402) goes before
\* orderBooks_ (1400).  ~Logger closes the socket.
DestroyLogger ==
    /\ phase = "destroyLogger"
    /\ phase' = "destroyBooks"
    /\ loggerAlive' = FALSE
    /\ UNCHANGED <<BookOnly, sink, toExpire, sinkVars, ringVars, sideVars,
                   traderRunning, expiryRunning_, expiryPc, lateCall>>

\* ~OrderBook, line 36: the book's last owner goes; expiryRunning_ is cleared.
DestroyBooks ==
    /\ phase = "destroyBooks"
    /\ phase' = "joinExpiry"
    /\ expiryRunning_' = FALSE
    /\ UNCHANGED <<BookOnly, sink, toExpire, sinkVars, ringVars, sideVars,
                   loggerAlive, traderRunning, expiryPc, lateCall>>

\* ~OrderBook, lines 37-38: the join of the expiry thread.
JoinExpiry ==
    /\ phase = "joinExpiry"
    /\ expiryPc = "exited"
    /\ phase' = "done"
    /\ UNCHANGED <<BookOnly, sink, toExpire, sinkVars, ringVars, sideVars,
                   loggerAlive, traderRunning, expiryRunning_, expiryPc, lateCall>>

ShutdownNext ==
    \/ RetailSubmit
    \/ RetailLogOrder
    \/ ElapseAny
    \/ ExpiryTest
    \/ ExpirySweep
    \/ ExpiryLog
    \/ StopTraders
    \/ JoinTraders
    \/ DestroyLogger
    \/ DestroyBooks
    \/ JoinExpiry

ShutdownSpec == ShutdownInit /\ [][ShutdownNext]_vars

\* The shutdown with the expiry thread scheduled again and again (its
\* sleep is one second, the book lock is held by others only for the
\* length of one call) and a join that returns once its thread has left.
\* Nothing promises that the main loop ever ends.
ShutdownFairSpec ==
    /\ ShutdownSpec
    /\ WF_vars(ExpiryTest \/ ExpirySweep \/ ExpiryLog)
    /\ WF_vars(JoinExpiry)

\* --------------------------------------------------------- depth observers
\* One book and one observer: the depth HTTP endpoint (buildBookJson) or
\* the terminal table (displayOrderBookTable), which read the book the
\* same way.
DEPTH_LEVELS == 5

\* The loops of buildBookJson (lines 1439-1443, 1446-1450): from begin(),
\* at most DEPTH_LEVELS levels, each with its key and getTotalQuantity().
\* begin() is the leftmost node of the map's tree, the lowest key.
\* getBuyLevels() hands out buyLevels_, a std::map ordered by std::less,
\* through a reinterpret_cast to a map type with std::greater; the cast
\* changes no node of the tree and iteration never calls the comparator.
RECURSIVE FromBegin(_, _, _)
FromBegin(lvs, keys, n) ==
    IF keys = {} \/ n = 0 THEN <<>>
    ELSE Let(SetMin(keys), LAMBDA p :
             <<[price |-> p, qty |-> lvs[p].totalQuantity_]>>
                 \o FromBegin(lvs, keys \ {p}, n - 1))

LevelRows(lvs) == FromBegin(lvs, DOMAIN lvs, DEPTH_LEVELS)

\* What one loop yields.  Neither getBuyLevels / getSellLevels nor the
\* loops take OrderBook::mutex_.  When the map has been written since the
\* observer took its reference the loop has raced with the writer: it
\* yields the rows of the map before or after the write, or the thread
\* follows a node the writer has freed.
LoopOutcomes(seen, now) ==
    {[crashed |-> FALSE, rows |-> LevelRows(now)],
     [crashed |-> FALSE, rows |-> LevelRows(seen)]}
    \cup (IF seen = now THEN {} ELSE {[crashed |-> TRUE, rows |-> <<>>]})

DepthInit == Init

\* buildBookJson, lines 1432-1433: the two references are taken.
DepthBegin ==
    /\ depth.pc = "idle"
    /\ depth' = [NoDepth EXCEPT !.pc = "bids", !.seenBuy = buyLevels_,
                                !.seenSell = sellLevels_]
    /\ UNCHANGED <<BookOnly, sink, toExpire, sinkVars, ringVars, appVars, traderVars>>

\* buildBookJson, lines 1437-1444: the loop over the buy side.
DepthBids ==
    /\ depth.pc = "bids"
    /\ \E r \in LoopOutcomes(depth.seenBuy, buyLevels_) :
         depth' = IF r.crashed THEN [NoDepth EXCEPT !.pc = "crashed"]
                  ELSE [depth EXCEPT !.pc = "asks", !.bids = r.rows]
    /\ UNCHANGED <<BookOnly, sink, toExpire, sinkVars, ringVars, appVars, traderVars>>

\* buildBookJson, lines 1445-1451: the loop over the sell side.
DepthAsks ==
    /\ depth.pc = "asks"
    /\ \E r \in LoopOutcomes(depth.seenSell, sellLevels_) :
         depth' = IF r.crashed THEN [NoDepth EXCEPT !.pc = "crashed"]
                  ELSE [depth EXCEPT !.pc = "done", !.asks = r.rows]
    /\ UNCHANGED <<BookOnly, sink, toExpire, sinkVars, ringVars, appVars, traderVars>>

\* buildBookJson, line 1452: the document is returned.
DepthReturn ==
    /\ depth.pc = "done"
    /\ depth' = NoDepth
    /\ UNCHANGED <<BookOnly, sink, toExpire, sinkVars, ringVars, appVars, traderVars>>

\* The writers: resting orders of one lot or more come and go.
DepthWriter ==
    \E side \in Sides, price \in Prices, quantity \in Quantities \ {0} :
        Submit(side, price, quantity, "GTC")

DepthNext ==
    \/ DepthWriter
    \/ CancelAny
    \/ Expire
    \/ ElapseAny
    \/ DepthBegin
    \/ DepthBids
    \/ DepthAsks
    \/ DepthReturn

DepthSpec == DepthInit /\ [][DepthNext]_vars

\* ---------------------------------------------------------- retail trader
\* One retail MockTrader on one book.
RetailInit == ShutdownInit

OrderTypes == {"LIMIT", "MARKET"}

\* Instrument::marketPrice as a trader reads it.  The display thread
\* writes it without synchronisation (main.cpp 1081, 1099): any positive
\* price.
MarketPrices == Prices \ {0}

\* runRetail, line 317: basePrice * priceDistribution_, a price within 5%
\* of the market price, here within one tick of it.
RetailPrices(basePrice) == {p \in Prices : basePrice - 1 <= p /\ p <= basePrice + 1}

\* runRetail, lines 309-324: one turn of the loop up to the return of
\* addOrder.  orderType goes into the Order and nowhere else: the price
\* drawn at line 317 is the order's limit whatever the type.
RunRetail(orderType, side, price, quantity) ==
    /\ traderRunning
    /\ callers[RETAIL].pc = "idle"
    /\ mutex_ = "free"
    /\ Len(orders) < MaxOrders
    /\ \E b0 \in {[Book EXCEPT !.orders =
                       Append(@, NewOrder(side, price, quantity, "GTC", RETAIL))]} :
         \E r \in {MatchOrder(b0, Len(orders) + 1)} :
           /\ SetBook(r.book)
           /\ mutex_' = IF r.diverged THEN "held" ELSE "free"
           /\ callers' = [callers EXCEPT ![RETAIL] =
                              [pc |-> IF r.diverged THEN "addOrder" ELSE "logOrder",
                               order |-> Len(orders) + 1, row |-> NoRow]]
    /\ type_' = Append(type_, orderType)
    /\ UNCHANGED <<toExpire, userOrders_, sinkVars, ringVars, appVars, depthVars,
                   wash, washLegs>>

RunRetailAny ==
    \E orderType \in OrderTypes, side \in Sides, basePrice \in MarketPrices :
        \E price \in RetailPrices(basePrice), quantity \in CallerQuantities(RETAIL) :
            RunRetail(orderType, side, price, quantity)

RetailNext ==
    \/ RunRetailAny
    \/ RetailLogOrder
    \/ ElapseAny
    \/ Expire
    \/ ExpireLog

RetailSpec == RetailInit /\ [][RetailNext]_vars

\* ------------------------------------------------------------ wash trader
\* Trader WASH_TRADER_USER_ID on one book, with WASH_TRADER_ACTIVE set
\* (the shipped value is false: then no thread runs runWash).
WASH_TRADER_USER_ID == 2500

WASH_QUANTITY == 10000

WashInit == RetailInit

\* runWash, lines 361-362: marketPrice * washPriceJitter_ rounded to two
\* places, a price within 0.1% of the market price, here within one tick.
WashPrices(market) == {p \in Prices : market - 1 <= p /\ p <= market + 1}

\* runWash, lines 365-368: the BUY leg
BuyLeg(washPrice) ==
    NewOrder("BUY", washPrice, WASH_QUANTITY, "GTC", WASH_TRADER_USER_ID)

\* the SELL leg quoted one tick above the pair's price
SellLeg_Requoted(washPrice) ==
    NewOrder("SELL", washPrice + 1, WASH_QUANTITY, "GTC", WASH_TRADER_USER_ID)

\* runWash, lines 377-381: the SELL leg
SellLeg(washPrice) ==
    NewOrder("SELL", washPrice, WASH_QUANTITY, "GTC", WASH_TRADER_USER_ID)

\* runWash, lines 351-362: both loop tests pass, the market price is read
\* and the pair's price is fixed.  The pauses between pairs and bursts
\* take no step.
WashQuote ==
    /\ wash.pc = "loop"
    /\ traderRunning
    /\ \E market \in MarketPrices : \E p \in WashPrices(market) :
         wash' = [pc |-> "buy", washPrice |-> p]
    /\ UNCHANGED <<BookOnly, sink, toExpire, sinkVars, ringVars, appVars, depthVars,
                   type_, washLegs>>

\* runWash, line 351: running_ is false, the thread ends.
WashExit ==
    /\ wash.pc = "loop"
    /\ ~ traderRunning
    /\ wash' = [wash EXCEPT !.pc = "exited"]
    /\ UNCHANGED <<BookOnly, sink, toExpire, sinkVars, ringVars, appVars, depthVars,
                   type_, washLegs>>

\* runWash, lines 365-369 and 377-382: a leg is constructed and addOrder
\* returns.
WashLeg(pc, order, next) ==
    /\ wash.pc = pc
    /\ mutex_ = "free"
    /\ Len(orders) < MaxOrders
    /\ \E b0 \in {[Book EXCEPT !.orders = Append(@, order)]} :
         \E r \in {MatchOrder(b0, Len(orders) + 1)} :
           /\ SetBook(r.book)
           /\ mutex_' = IF r.diverged THEN "held" ELSE "free"
           /\ wash' = [wash EXCEPT !.pc = IF r.diverged THEN "addOrder" ELSE next]
    /\ washLegs' = Append(washLegs, [side |-> order.side, price |-> order.price,
                                     quantity |-> order.quantity])
    /\ type_' = Append(type_, "LIMIT")
    /\ UNCHANGED <<callers, toExpire, userOrders_, sinkVars, ringVars, appVars, depthVars>>

WashBuy == WashLeg("buy", BuyLeg(wash.washPrice), "logBuy")

WashSell == WashLeg("sell", SellLeg(wash.washPrice), "logSell")

\* runWash, lines 370 and 383: logOrder of the leg just submitted.
WashLog ==
    /\ wash.pc \in {"logBuy", "logSell"}
    /\ sink' = SendILP(sink, LogOrderRow(Len(washLegs), orders[Len(washLegs)], FALSE))
    /\ wash' = [wash EXCEPT !.pc = IF wash.pc = "logBuy" THEN "check" ELSE "loop"]
    /\ UNCHANGED <<BookOnly, toExpire, sinkVars, ringVars, appVars, depthVars,
                   type_, washLegs>>

\* runWash, lines 372-374: after the pause between the legs, the test of
\* running_; the break leaves the pair without its SELL leg.
WashCheck ==
    /\ wash.pc = "check"
    /\ wash' = [wash EXCEPT !.pc = IF traderRunning THEN "sell" ELSE "loop"]
    /\ UNCHANGED <<BookOnly, sink, toExpire, sinkVars, ringVars, appVars, depthVars,
                   type_, washLegs>>

WashNext ==
    \/ WashQuote
    \/ WashExit
    \/ WashBuy
    \/ WashSell
    \/ WashLog
    \/ WashCheck
    \/ StopTraders
    \/ ElapseAny
    \/ Expire
    \/ ExpireLog

WashSpec == WashInit /\ [][WashNext]_vars

\* ------------------------------------------------------ a long run of trades
\* One book without a logger: a caller rests one order of MaxTapeTrades
\* units at the top price, and callers take it one unit at a time with
\* immediate-or-cancel orders, every one of them a trade.
TapeRest(side) ==
    /\ orders = <<>>
    /\ SubmitWith(1, side, MaxPrice, MaxTapeTrades, "GTC")

TapeTake ==
    /\ orders # <<>>
    /\ SubmitWith(MaxTapeTrades + 1, OppositeSide(orders[1].side), MaxPrice, 1, "IOC")

TapeNext ==
    \/ \E side \in Sides : TapeRest(side)
    \/ TapeTake

TapeSpec == Init /\ [][TapeNext]_vars

\* ------------------------------------------------------------- properties
AllLevelIds(lvs) == UNION {{lvs[p].orders_[i] : i \in 1..Len(lvs[p].orders_)} : p \in DOMAIN lvs}

\* the executions of the step being taken: indices of execs' beyond execs
NewExecs == (Len(execs) + 1)..Len(execs')

\* an execution that filled its resting order completely
FillsResting(e) == e.trade.quantity = e.restingRemaining

\* p1 is a strictly better resting price than p2 on the given resting side
BetterPrice(side, p1, p2) == IF side = "BUY" THEN p1 > p2 ELSE p1 < p2

\* C1: time priority.  In every step, when a resting order B is executed
\* against, every order A that stood before B in the same level (same side,
\* same price, inserted earlier) has already been executed against in that
\* step by an execution that filled A completely.
C1_TimePriorityStep ==
    \A side \in Sides :
      \A p \in DOMAIN SideLevels(Book, side) :
        LET q == SideLevels(Book, side)[p].orders_
        IN  \A i \in 1..Len(q) : \A j \in 1..Len(q) :
              i < j =>
                \A m \in NewExecs :
                  execs'[m].resting = q[j] =>
                    \E n \in NewExecs :
                      /\ n < m
                      /\ execs'[n].resting = q[i]
                      /\ FillsResting(execs'[n])

C1_TimePriority == [][C1_TimePriorityStep]_vars

\* C1 witness: an order A was executed against and filled while an order B,
\* inserted after A at the same price on the same side and before the
\* incoming order arrived, still rests untouched behind it.
C1_Witness ==
    \E m \in 1..Len(execs) : \E B \in orderMap_ :
        LET A == execs[m].resting
        IN  /\ A < B /\ B < execs[m].incoming
            /\ orders[A].side = orders[B].side
            /\ orders[A].price = orders[B].price
            /\ orders[A].status = "FILLED"
            /\ orders[A].quantity > 0
            /\ orders[B].status = "NEW"
            /\ orders[B].remainingQuantity > 0

\* C2: price priority.  In every step, when a resting order R is executed
\* against, every order resting on R's side at a strictly better price
\* (higher for buys, lower for sells) has already been executed against
\* in that step and filled completely.
C2_PricePriorityStep ==
    \A m \in NewExecs :
        LET R == execs'[m].resting
        IN  \A Q \in orderMap_ :
              ( /\ orders[Q].side = orders[R].side
                /\ BetterPrice(orders[R].side, orders[Q].price, orders[R].price) )
              => \E n \in NewExecs :
                    /\ n < m
                    /\ execs'[n].resting = Q
                    /\ FillsResting(execs'[n])

C2_PricePriority == [][C2_PricePriorityStep]_vars

\* C2 witness: one incoming order executed against two resting orders at
\* different prices, the better-priced one first.
C2_Witness ==
    \E m \in 1..Len(execs) : \E n \in 1..Len(execs) :
        /\ m < n
        /\ execs[m].incoming = execs[n].incoming
        /\ execs[m].trade.quantity > 0
        /\ execs[n].trade.quantity > 0
        /\ BetterPrice(orders[execs[m].resting].side,
                       execs[m].trade.price, execs[n].trade.price)

\* C3: every trade has quantity min(incoming remaining, resting remaining)
\* as they were when it executed, the resting order's price, the incoming
\* order's side as aggressor, the BUY order of the two as buy order and
\* buyer and the SELL order as sell order and seller; both remaining
\* quantities go down by exactly the trade quantity.
C3_TradeFields ==
    \A m \in 1..Len(execs) :
        LET e   == execs[m]
            t   == e.trade
            inc == orders[e.incoming]
            rst == orders[e.resting]
            buy  == IF inc.side = "BUY" THEN e.incoming ELSE e.resting
            sell == IF inc.side = "BUY" THEN e.resting ELSE e.incoming
        IN  /\ inc.side # rst.side
            /\ t.quantity = Min(e.incomingRemaining, e.restingRemaining)
            /\ t.price = rst.price
            /\ t.aggressorSide = inc.side
            /\ t.buyOrderId = buy /\ orders[buy].side = "BUY"
            /\ t.sellOrderId = sell /\ orders[sell].side = "SELL"
            /\ t.buyerUserId = orders[buy].traderId
            /\ t.sellerUserId = orders[sell].traderId
            /\ e.incomingAfter = e.incomingRemaining - t.quantity
            /\ e.restingAfter = e.restingRemaining - t.quantity

\* C3 witness: a trade between orders of unequal remaining quantity and of
\* different traders, with a SELL aggressor.
C3_Witness ==
    \E m \in 1..Len(execs) :
        /\ execs[m].incomingRemaining > execs[m].restingRemaining
        /\ execs[m].restingRemaining > 0
        /\ execs[m].trade.aggressorSide = "SELL"
        /\ execs[m].trade.buyerUserId # execs[m].trade.sellerUserId

\* C4: whenever the book mutex is free and both sides have a level, the
\* best bid is strictly below the best ask.
C4_NotCrossed ==
    (mutex_ = "free" /\ DOMAIN buyLevels_ # {} /\ DOMAIN sellLevels_ # {})
        => BestBidPrice(Book) < BestAskPrice(Book)

\* C4 witness: both sides hold a level after matching has taken place.
C4_Witness ==
    /\ mutex_ = "free"
    /\ DOMAIN buyLevels_ # {} /\ DOMAIN sellLevels_ # {}
    /\ \E m \in 1..Len(execs) : execs[m].trade.quantity > 0

\* C5: whenever the book mutex is free, the id index holds exactly the
\* orders that are in some level of either side.
C5_IndexExact ==
    mutex_ = "free" =>
        orderMap_ = AllLevelIds(buyLevels_) \cup AllLevelIds(sellLevels_)

\* C5 witness: the index is non-empty after one resting order was filled
\* and removed and another was cancelled or expired.
C5_Witness ==
    /\ mutex_ = "free"
    /\ orderMap_ # {}
    /\ \E m \in 1..Len(execs) : orders[execs[m].resting].status = "FILLED"
    /\ \E id \in DOMAIN orders : orders[id].status \in {"CANCELLED", "EXPIRED"}

\* where an order id sits: the <<side, price, position>> triples of the levels
Places(id) ==
    {<<side, p, i>> \in Sides \X Prices \X (1..MaxOrders) :
        /\ p \in DOMAIN SideLevels(Book, side)
        /\ i <= Len(SideLevels(Book, side)[p].orders_)
        /\ SideLevels(Book, side)[p].orders_[i] = id}

RECURSIVE SumRemaining(_, _)
SumRemaining(os, ids) ==
    IF ids = <<>> THEN 0
    ELSE os[Head(ids)].remainingQuantity + SumRemaining(os, Tail(ids))

RECURSIVE SumTradeQty(_, _, _)
SumTradeQty(es, lo, hi) ==
    IF lo > hi THEN 0 ELSE es[lo].trade.quantity + SumTradeQty(es, lo + 1, hi)

\* C6: every order resting in the book has 0 < remaining <= original
\* quantity and sits in exactly one level, which is on the order's own
\* side and at the order's own price.
C6_RestingOrderWellFormed ==
    \A id \in orderMap_ \cup AllLevelIds(buyLevels_) \cup AllLevelIds(sellLevels_) :
        /\ 0 < orders[id].remainingQuantity
        /\ orders[id].remainingQuantity <= orders[id].quantity
        /\ Cardinality(Places(id)) = 1
        /\ \A pl \in Places(id) : pl[1] = orders[id].side /\ pl[2] = orders[id].price

\* C7: in every level the cached totalQuantity_ equals the sum of the
\* remaining quantities of the orders now in the level.
C7_CachedTotalQuantity ==
    \A side \in Sides :
      \A p \in DOMAIN SideLevels(Book, side) :
        SideLevels(Book, side)[p].totalQuantity_
            = SumRemaining(orders, SideLevels(Book, side)[p].orders_)

\* C8: an order's status changes only from NEW or PARTIALLY_FILLED, and
\* only to PARTIALLY_FILLED, FILLED, CANCELLED or EXPIRED; once it is
\* FILLED, CANCELLED or EXPIRED neither its status nor its remaining
\* quantity changes again.
C8_StatusStep ==
    \A id \in DOMAIN orders :
        /\ orders'[id].status # orders[id].status =>
              /\ orders[id].status \in {"NEW", "PARTIALLY_FILLED"}
              /\ orders'[id].status \in {"PARTIALLY_FILLED", "FILLED", "CANCELLED", "EXPIRED"}
        /\ IsTerminal(orders[id].status) =>
              /\ orders'[id].status = orders[id].status
              /\ orders'[id].remainingQuantity = orders[id].remainingQuantity

C8_StatusMonotone == [][C8_StatusStep]_vars

\* C8 witness: an order that was matched (so it was PARTIALLY_FILLED) has
\* been cancelled or expired, and another order is FILLED, with the book
\* still open to further submits.
C8_Witness ==
    /\ mutex_ = "free"
    /\ Len(orders) < MaxOrders
    /\ \E id \in DOMAIN orders :
          /\ orders[id].status \in {"CANCELLED", "EXPIRED"}
          /\ orders[id].matchedTradeId # NA_TRADE_ID
    /\ \E id \in DOMAIN orders : orders[id].status = "FILLED"

\* C9: a submit of an IOC order that executes nothing leaves both side
\* maps, every level, the id index, the recent-trade window and the volume
\* counters unchanged; and no IOC order is ever in a level or in the index.
C9_IOCStep ==
    /\ \A id \in DOMAIN orders' :
          orders'[id].timeInForce = "IOC" =>
              /\ id \notin orderMap_'
              /\ id \notin AllLevelIds(buyLevels_') \cup AllLevelIds(sellLevels_')
    /\ ( /\ Len(orders') = Len(orders) + 1
         /\ orders'[Len(orders')].timeInForce = "IOC"
         /\ execs' = execs )
       => UNCHANGED <<buyLevels_, sellLevels_, orderMap_, recentTrades_,
                      totalVolume_, buyVolume_, sellVolume_, tradeCount_>>

C9_IOCNeverRests == [][C9_IOCStep]_vars

\* C9 witness: an IOC order of positive quantity was submitted against a
\* non-empty opposite side, executed nothing and is not in the book.
C9_Witness ==
    \E id \in DOMAIN orders :
        /\ orders[id].timeInForce = "IOC"
        /\ orders[id].quantity > 0
        /\ orders[id].status = "NEW"
        /\ \E r \in orderMap_ : r < id /\ orders[r].side # orders[id].side

\* C10: after a submit of a non-IOC order that returns with the order not
\* FILLED, the order is the last of the level at its own price on its own
\* side and is in the id index, its remaining is its quantity minus what
\* this submit executed, and its status is PARTIALLY_FILLED if the submit
\* executed a trade and NEW otherwise; a resting order that the submit
\* filled in part is still indexed, at the head of its level with the
\* orders behind it unchanged, with its remaining reduced by the trade.
C10_RestStep ==
    Len(orders') = Len(orders) + 1 =>
        LET id  == Len(orders')
            o   == orders'[id]
            own == IF o.side = "BUY" THEN buyLevels_' ELSE sellLevels_'
            opp == IF o.side = "BUY" THEN sellLevels_' ELSE buyLevels_'
        IN  /\ (o.timeInForce # "IOC" /\ o.status # "FILLED" /\ mutex_' = "free") =>
                  /\ o.price \in DOMAIN own
                  /\ own[o.price].orders_ # <<>>
                  /\ own[o.price].orders_[Len(own[o.price].orders_)] = id
                  /\ id \in orderMap_'
                  /\ o.remainingQuantity
                        = o.quantity - SumTradeQty(execs', Len(execs) + 1, Len(execs'))
                  /\ o.status = IF NewExecs # {} THEN "PARTIALLY_FILLED" ELSE "NEW"
            /\ \A m \in NewExecs :
                  LET R == execs'[m].resting
                  IN  execs'[m].restingAfter > 0 =>
                        LET pre == SideLevels(Book, orders[R].side)[orders[R].price].orders_
                            i   == CHOOSE k \in 1..Len(pre) : pre[k] = R
                        IN  /\ R \in orderMap_'
                            /\ orders[R].price \in DOMAIN opp
                            /\ opp[orders[R].price].orders_ = SubSeq(pre, i, Len(pre))
                            /\ orders'[R].status = "PARTIALLY_FILLED"
                            /\ orders'[R].remainingQuantity
                                  = orders[R].remainingQuantity - execs'[m].trade.quantity

C10_RestsAtTail == [][C10_RestStep]_vars

\* C10 witness: an order that executed a trade on arrival rests, partially
\* filled, behind nothing but its own remainder, while a resting order
\* that was filled in part is still at the head of its level.
C10_Witness ==
    /\ \E id \in orderMap_ :
          /\ orders[id].status = "PARTIALLY_FILLED"
          /\ \E m \in 1..Len(execs) : execs[m].incoming = id
    /\ \E id \in orderMap_ :
          /\ orders[id].status = "NEW"
          /\ \E pl \in Places(id) : pl[3] > 1

\* the four volume counters
Counters == <<totalVolume_, buyVolume_, sellVolume_, tradeCount_>>

\* summed quantity of the trades of es whose aggressor was the given side
RECURSIVE SumAggressorQty(_, _, _)
SumAggressorQty(es, side, n) ==
    IF n = 0 THEN 0
    ELSE (IF es[n].trade.aggressorSide = side THEN es[n].trade.quantity ELSE 0)
         + SumAggressorQty(es, side, n - 1)

\* summed (original - remaining) of the orders 1..n whose status is in sts
RECURSIVE SumFilled(_, _, _)
SumFilled(os, sts, n) ==
    IF n = 0 THEN 0
    ELSE (IF os[n].status \in sts THEN os[n].quantity - os[n].remainingQuantity ELSE 0)
         + SumFilled(os, sts, n - 1)

AllStatuses == {"NEW", "PARTIALLY_FILLED", "FILLED", "CANCELLED", "EXPIRED"}

\* C11: a cancelOrder on an order that rests with status NEW or
\* PARTIALLY_FILLED takes it out of its level and out of the id index,
\* makes it CANCELLED with a non-zero cancel timestamp and leaves its
\* remaining quantity alone; and no step ever executes a trade against an
\* order that is CANCELLED.
C11_CancelStep ==
    /\ \A id \in DOMAIN orders :
          ( /\ Cancel(id)
            /\ id \in orderMap_
            /\ orders[id].status \in {"NEW", "PARTIALLY_FILLED"} )
          => /\ id \notin orderMap_'
             /\ id \notin AllLevelIds(buyLevels_') \cup AllLevelIds(sellLevels_')
             /\ orders'[id].status = "CANCELLED"
             /\ orders'[id].cancelTimestamp # 0
             /\ orders'[id].remainingQuantity = orders[id].remainingQuantity
    /\ \A m \in NewExecs :
          /\ orders[execs'[m].resting].status # "CANCELLED"
          /\ orders'[execs'[m].resting].status # "CANCELLED"

C11_CancelRemoves == [][C11_CancelStep]_vars

\* C11 witness: an order was cancelled after a partial fill with quantity
\* left, and an order of the opposite side that arrived later at a
\* crossing price found nothing to trade with and rests untouched.
C11_Witness ==
    \E c \in DOMAIN orders : \E j \in orderMap_ :
        /\ c < j
        /\ orders[c].status = "CANCELLED"
        /\ orders[c].cancelTimestamp # 0
        /\ orders[c].matchedTradeId # NA_TRADE_ID
        /\ orders[c].remainingQuantity > 0
        /\ orders[j].side # orders[c].side
        /\ orders[j].status = "NEW"
        /\ orders[j].quantity > 0
        /\ Crosses(orders[j].side, orders[c].price, orders[j].price)

\* C14: totalVolume_ is the summed quantity of all executed trades,
\* tradeCount_ their number, buyVolume_ and sellVolume_ the summed
\* quantities of the trades whose aggressor was BUY and SELL; a
\* cancelOrder and an expiry sweep change none of the four.
C14_CountersMatch ==
    /\ totalVolume_ = SumTradeQty(execs, 1, Len(execs))
    /\ tradeCount_ = Len(execs)
    /\ buyVolume_ = SumAggressorQty(execs, "BUY", Len(execs))
    /\ sellVolume_ = SumAggressorQty(execs, "SELL", Len(execs))

C14_CountersStep ==
    /\ C14_CountersMatch
    /\ C14_CountersMatch'
    /\ (CancelAny \/ Expire) => UNCHANGED Counters

C14_VolumeCounters == [][C14_CountersStep]_vars

\* C14 witness: trades of both aggressor sides have executed and an
\* order was cancelled or expired afterwards.
C14_Witness ==
    /\ \E m \in 1..Len(execs) :
          execs[m].trade.aggressorSide = "BUY" /\ execs[m].trade.quantity > 0
    /\ \E m \in 1..Len(execs) :
          execs[m].trade.aggressorSide = "SELL" /\ execs[m].trade.quantity > 0
    /\ \E id \in DOMAIN orders :
          /\ orders[id].status \in {"CANCELLED", "EXPIRED"}
          /\ \E m \in 1..Len(execs) : execs[m].incoming = id

\* C15 as stated: buyVolume + sellVolume is twice the total executed
\* quantity.
C15_TwiceTotal ==
    buyVolume_ + sellVolume_ = 2 * SumTradeQty(execs, 1, Len(execs))

\* C15 as the code has it: each execution adds its quantity to exactly
\* one of buyVolume_ and sellVolume_, so buyVolume + sellVolume is the
\* total executed quantity, which is totalVolume_.
C15_OnceTotal ==
    /\ buyVolume_ + sellVolume_ = SumTradeQty(execs, 1, Len(execs))
    /\ buyVolume_ + sellVolume_ = totalVolume_

\* C15 witness: both side counters are positive.
C15_Witness == buyVolume_ > 0 /\ sellVolume_ > 0

\* C16 as stated: the summed trade quantity equals the summed
\* (original - remaining) of the orders that are PARTIALLY_FILLED or FILLED.
C16_TradesEqualFills ==
    SumTradeQty(execs, 1, Len(execs))
        = SumFilled(orders, {"PARTIALLY_FILLED", "FILLED"}, Len(orders))

\* C16 as the code has it: every execution fills two orders by its
\* quantity and nothing else changes a remaining quantity, so twice the
\* summed trade quantity equals the summed (original - remaining) of all
\* orders, whatever their status; the orders that are PARTIALLY_FILLED or
\* FILLED account for at most that much.
C16_TwiceTradesEqualFills ==
    /\ 2 * SumTradeQty(execs, 1, Len(execs))
          = SumFilled(orders, AllStatuses, Len(orders))
    /\ SumFilled(orders, {"PARTIALLY_FILLED", "FILLED"}, Len(orders))
          <= 2 * SumTradeQty(execs, 1, Len(execs))

\* C16 witness: an order that was filled in part has expired with
\* quantity left, and another order is FILLED.
C16_Witness ==
    /\ \E id \in DOMAIN orders :
          /\ orders[id].status = "EXPIRED"
          /\ orders[id].remainingQuantity > 0
          /\ orders[id].remainingQuantity < orders[id].quantity
    /\ \E id \in DOMAIN orders :
          orders[id].status = "FILLED" /\ orders[id].quantity > 0

\* ------------------------------------------------ properties of the rows sent
\* the order event rows sent for order id (its TRADE_MATCH lines left out)
OrderRows(id) == SelectSeq(sink[id], LAMBDA r : r.order_status_event # "TRADE_MATCH")

\* how many rows of the given event were sent for order id
CountEvent(id, event) ==
    Cardinality({i \in 1..Len(sink[id]) : sink[id][i].order_status_event = event})

\* the caller that submitted order id has not finished its logOrder
SubmitLogPending(id) ==
    \E t \in Traders :
        callers[t].order = id /\ callers[t].pc \in {"addOrder", "logOrder", "sendILP"}

\* a step of handleCancelOrder for the order id typed in
HandleCancelStep(id) ==
    \/ HandleCancelOrder(id)
    \/ (ConfirmCancelAny /\ callers[USER].order = id)

\* C12: a cancel of an id the console does not know, or of an order that
\* is CANCELLED, FILLED or EXPIRED when the cancel runs, changes no level,
\* not the id index and no order (status, remaining quantity and cancel
\* timestamp included); for an unknown id or an order that is already
\* CANCELLED it sends no row; and no step at all sends an ORDER_CANCELLED
\* row for an order that is already CANCELLED.
C12_NoopStep ==
    /\ \A id \in 0..MaxOrders :
          ( /\ HandleCancelStep(id)
            /\ (id \notin userOrders_ \/ IsTerminal(orders[id].status)) )
          => /\ UNCHANGED <<orders, buyLevels_, sellLevels_, orderMap_>>
             /\ (id \notin userOrders_ \/ orders[id].status = "CANCELLED")
                   => UNCHANGED sink
    /\ \A id \in DOMAIN orders :
          orders[id].status = "CANCELLED"
            => CountEvent(id, "ORDER_CANCELLED")' = CountEvent(id, "ORDER_CANCELLED")

C12_CancelNoop == [][C12_NoopStep]_vars

\* C12 witness: an order of the console user expired while the cancel
\* prompt was waiting and the cancel then ran on it (the rows sent for it
\* are the caller's ORDER_NEW, the sweep's ORDER_EXPIRED and the cancel's
\* ORDER_EXPIRED) leaving it EXPIRED without a cancel timestamp; another
\* of the user's orders is CANCELLED with its single ORDER_CANCELLED row.
C12_Witness ==
    \E a \in userOrders_ : \E b \in userOrders_ :
        /\ orders[a].status = "CANCELLED"
        /\ CountEvent(a, "ORDER_CANCELLED") = 1
        /\ orders[b].status = "EXPIRED"
        /\ orders[b].cancelTimestamp = 0
        /\ orders[b].remainingQuantity > 0
        /\ Len(sink[b]) = 3
        /\ sink[b][1].order_status_event = "ORDER_NEW"
        /\ sink[b][2].order_status_event = "ORDER_EXPIRED"
        /\ sink[b][3].order_status_event = "ORDER_EXPIRED"

\* C13: an order has an ORDER_EXPIRED row only if it is EXPIRED, has one
\* once the sweep that expired it has logged it, and never has more than
\* one.
C13_OneExpiredRow ==
    \A id \in DOMAIN orders :
        /\ CountEvent(id, "ORDER_EXPIRED") <= 1
        /\ CountEvent(id, "ORDER_EXPIRED") >= 1 => orders[id].status = "EXPIRED"
        /\ ( /\ orders[id].status = "EXPIRED"
             /\ \A i \in 1..Len(toExpire) : toExpire[i] # id )
           => CountEvent(id, "ORDER_EXPIRED") >= 1

\* C17: for every executed trade T whose incoming order has been logged
\* by its caller, an order event row tagged trade_id = T has been sent for
\* the buy order and one for the sell order.
C17_BothOrdersTagged ==
    \A m \in 1..Len(execs) :
        ~ SubmitLogPending(execs[m].incoming)
        => \A id \in {execs[m].trade.buyOrderId, execs[m].trade.sellOrderId} :
              \E i \in 1..Len(OrderRows(id)) :
                  OrderRows(id)[i].trade_id = execs[m].trade.tradeId

\* C18: when a BUY q@p of one trader was submitted and logged on the
\* empty book, then a SELL q@p of another trader was submitted and
\* logged, and nothing else happened, there is exactly one trade (price p,
\* quantity q, aggressor SELL), both orders are FILLED, the book is
\* empty, and rows ORDER_NEW and ORDER_FILLED were sent for each of the
\* two orders, and one TRADE_MATCH row.
C18_SimpleCross ==
    ( /\ Len(orders) = 2
      /\ orders[1].side = "BUY" /\ orders[2].side = "SELL"
      /\ orders[1].price = orders[2].price
      /\ orders[1].quantity = orders[2].quantity
      /\ orders[1].quantity > 0
      /\ orders[1].traderId # orders[2].traderId
      /\ \A t \in Traders : callers[t].pc = "idle"
      /\ toExpire = <<>>
      /\ sink[1] # <<>>
      /\ sink[1][1].order_status_event = "ORDER_NEW"
      /\ \A id \in 1..2 : orders[id].status \notin {"CANCELLED", "EXPIRED"} )
    => /\ Len(execs) = 1
       /\ execs[1].trade.price = orders[1].price
       /\ execs[1].trade.quantity = orders[1].quantity
       /\ execs[1].trade.aggressorSide = "SELL"
       /\ orders[1].status = "FILLED" /\ orders[2].status = "FILLED"
       /\ DOMAIN buyLevels_ = {} /\ DOMAIN sellLevels_ = {} /\ orderMap_ = {}
       /\ CountEvent(1, "TRADE_MATCH") = 1
       /\ \A id \in 1..2 :
             /\ CountEvent(id, "ORDER_NEW") >= 1
             /\ CountEvent(id, "ORDER_FILLED") >= 1

\* C19: no row was sent by a thread holding the book mutex.
C19_NoRowUnderBookLock ==
    \A id \in DOMAIN sink :
        \A i \in 1..Len(sink[id]) : ~ sink[id][i].bookMutexHeld

\* the place of an order event in the order's lifecycle
LifecycleRank(event) ==
    CASE event = "ORDER_NEW"     -> 0
      [] event = "ORDER_PARTIAL" -> 1
      [] OTHER                   -> 2

\* C20: the order event rows sent for an order are in lifecycle order: no
\* row of an earlier state follows a row of a later state, and no row
\* follows an ORDER_FILLED, ORDER_CANCELLED or ORDER_EXPIRED row.
C20_LifecycleOrder ==
    \A id \in DOMAIN sink :
        \A i \in 1..Len(OrderRows(id)) : \A j \in 1..Len(OrderRows(id)) :
            i < j =>
              /\ LifecycleRank(OrderRows(id)[i].order_status_event) < 2
              /\ LifecycleRank(OrderRows(id)[i].order_status_event)
                    <= LifecycleRank(OrderRows(id)[j].order_status_event)

\* the executions order id took part in, as indices of execs
ExecsOf(id) == {m \in 1..Len(execs) : execs[m].incoming = id \/ execs[m].resting = id}

\* the trade context an order carries
TradeContext(o) == <<o.matchedTradeId, o.counterpartyBuyerUid, o.counterpartySellerUid>>

\* C22: an order that has taken part in no execution carries the "NA"
\* context; an order that has carries the trade id, buyer and seller of
\* the latest execution it took part in, none of them "NA", whatever its
\* status has become since (cancelled and expired orders included).
C22_TradeContext ==
    \A id \in DOMAIN orders :
        IF ExecsOf(id) = {}
        THEN TradeContext(orders[id]) = <<NA_TRADE_ID, NA, NA>>
        ELSE LET t == execs[SetMax(ExecsOf(id))].trade
             IN  /\ TradeContext(orders[id]) = <<t.tradeId, t.buyerUserId, t.sellerUserId>>
                 /\ t.tradeId # NA_TRADE_ID /\ t.buyerUserId # NA /\ t.sellerUserId # NA

\* C22 witness: an order was matched in part by a trade of positive
\* quantity and then cancelled or expired with quantity left, its fully
\* filled counterparty carries the same context, and a third order has
\* never been matched.
C22_Witness ==
    \E a \in DOMAIN orders : \E b \in DOMAIN orders : \E c \in DOMAIN orders :
        /\ ExecsOf(a) # {} /\ ExecsOf(b) = ExecsOf(a) /\ a # b
        /\ execs[SetMax(ExecsOf(a))].trade.quantity > 0
        /\ orders[a].status \in {"CANCELLED", "EXPIRED"}
        /\ orders[a].remainingQuantity > 0
        /\ orders[b].status = "FILLED"
        /\ ExecsOf(c) = {}
        /\ orders[c].quantity > 0

\* ------------------------------------------- properties of the Logger's sends
\* C21: a logOrder / logTrade call makes at most one connect attempt and
\* at most two sends for its line and returns (the process is not ended by
\* it); when it has returned without a socket, the Logger is as it is
\* before a first connect, so that the next call connects again.
C21_OneReconnect ==
    /\ call.connects <= 1
    /\ call.sends <= 2
    /\ ~ terminated
    /\ (call.pc = "idle" /\ sock_ = INVALID_SOCK) => (call.row = 0 \/ call.connects >= 1)

\* ------------------------------------------------- properties of the ring
\* C23: every ring order of a step that does not anchor the price (the
\* SELL of steps 1, 3, 5, 7) is submitted at the price of the order of the
\* step before it (the BUY of steps 0, 2, 4, 6 of the same rotation).
C23_PricePairing ==
    \A i \in 1..Len(ringPlaced) :
        LET k == ringPlaced[i]
        IN  ~ CYCLE[(k % 8) + 1].setPrice =>
              /\ k >= 1
              /\ CYCLE[((k - 1) % 8) + 1].setPrice
              /\ (k - 1) \div 8 = k \div 8
              /\ orders[i].side = "SELL"
              /\ ringTaken[k].side = "BUY"
              /\ orders[i].price = ringTaken[k].price

\* C23 witness: two SELL orders of the ring were submitted, the second at
\* another price than the first, and the first of them before its BUY.
C23_Witness ==
    \E i \in 1..Len(ringPlaced) : \E j \in 1..Len(ringPlaced) :
        /\ ringPlaced[i] = 1 /\ ringPlaced[j] = 3
        /\ orders[i].price # orders[j].price
        /\ \E b \in 1..Len(ringPlaced) : ringPlaced[b] = 0 /\ i < b

\* C24: ring orders reach the book in step order: the order of step k is
\* the (k + 1)-th ring order submitted.
C24_StepOrder ==
    \A i \in 1..Len(ringPlaced) : ringPlaced[i] = i - 1

\* ------------------------------------------------- properties of shutdown
\* C25: the Logger is destroyed (its socket closed) only when the
\* producers and the book's expiry thread have been joined, and no
\* logOrder / logTrade is ever called on the destroyed Logger.
C25_SinkClosedLast ==
    /\ ~ loggerAlive =>
          /\ ~ traderRunning /\ callers[RETAIL].pc = "idle"
          /\ expiryPc = "exited"
    /\ ~ lateCall

\* ------------------------------------------------ properties of the depth
\* C26: a depth read never overlaps a structural mutation of the book:
\* while an observer is between taking its references and the end of its
\* second loop, no step changes either side map or a level's quantity.
C26_ReadsUnderLock ==
    [][depth.pc \in {"bids", "asks"}
         => (buyLevels_' = buyLevels_ /\ sellLevels_' = sellLevels_)]_vars

\* the remaining quantities of the orders of a level, added up
RECURSIVE AggregateRemaining(_, _)
AggregateRemaining(os, ids) ==
    IF ids = <<>> THEN 0
    ELSE os[Head(ids)].remainingQuantity + AggregateRemaining(os, Tail(ids))

\* the n best levels of a side, best first
RECURSIVE BestFirst(_, _, _, _, _)
BestFirst(os, lvs, keys, n, side) ==
    IF keys = {} \/ n = 0 THEN <<>>
    ELSE Let(IF side = "BUY" THEN SetMax(keys) ELSE SetMin(keys), LAMBDA p :
             <<[price |-> p, qty |-> AggregateRemaining(os, lvs[p].orders_)]>>
                 \o BestFirst(os, lvs, keys \ {p}, n - 1, side))

\* C27: a depth snapshot taken with no write in between lists the bids
\* from the highest price down and the asks from the lowest price up, at
\* most DEPTH_LEVELS of each, every level with the sum of what remains of
\* its orders.
C27_BestFirst ==
    (depth.pc = "done" /\ depth.seenBuy = buyLevels_ /\ depth.seenSell = sellLevels_)
       => /\ depth.bids = BestFirst(orders, buyLevels_, DOMAIN buyLevels_,
                                    DEPTH_LEVELS, "BUY")
          /\ depth.asks = BestFirst(orders, sellLevels_, DOMAIN sellLevels_,
                                    DEPTH_LEVELS, "SELL")

\* ------------------------------------------- properties of the user surface
\* C28: no order entered at the console reaches a book with quantity 0 or
\* with a limit price of 0 or less.
C28_BoundaryRejects ==
    \A id \in DOMAIN orders :
        orders[id].traderId = USER
           => (orders[id].quantity > 0 /\ orders[id].price > 0)

\* ------------------------------------------- properties of the retail trader
\* C29: a MARKET order submitted while the opposite side is not empty
\* leaves addOrder fully filled or with the opposite side empty: matching
\* never stops it at the price check.
C29_MarketCrosses ==
    [][(/\ Len(type_') = Len(type_) + 1
        /\ type_'[Len(type_')] = "MARKET"
        /\ SideLevels(Book, OppositeSide(orders'[Len(orders')].side)) # EmptyMap)
          => \/ orders'[Len(orders')].remainingQuantity = 0
             \/ (IF orders'[Len(orders')].side = "BUY" THEN sellLevels_' ELSE buyLevels_')
                    = EmptyMap]_vars

\* --------------------------------------------- properties of the wash trader
\* C30: the wash trader's legs alternate BUY, SELL from the first; every
\* leg has quantity WASH_QUANTITY, and every SELL leg has the price of the
\* BUY leg submitted just before it.
C30_WashPairs ==
    \A i \in 1..Len(washLegs) :
        /\ washLegs[i].quantity = WASH_QUANTITY
        /\ washLegs[i].side = (IF i % 2 = 1 THEN "BUY" ELSE "SELL")
        /\ (i % 2 = 0) => /\ washLegs[i].price = washLegs[i - 1].price
                          /\ washLegs[i].quantity = washLegs[i - 1].quantity

\* a pair is complete and was executed against itself, and the next pair
\* has begun at another price
C30_Witness ==
    /\ Len(washLegs) = 3
    /\ washLegs[2].side = "SELL"
    /\ washLegs[3].price # washLegs[1].price
    /\ \E k \in 1..Len(execs) : execs[k].trade.quantity = WASH_QUANTITY

\* ------------------------------------------------- properties of best prices
\* C31: getBestBidPrice() is the highest price with a buy level and
\* getBestAskPrice() the lowest price with a sell level, and each is 0
\* exactly when its side has no level.
C31_BestPrices ==
    /\ (BestBidPrice(Book) = 0) <=> (DOMAIN buyLevels_ = {})
    /\ (BestAskPrice(Book) = 0) <=> (DOMAIN sellLevels_ = {})
    /\ DOMAIN buyLevels_ # {}
          => /\ BestBidPrice(Book) \in DOMAIN buyLevels_
             /\ \A p \in DOMAIN buyLevels_ : p <= BestBidPrice(Book)
    /\ DOMAIN sellLevels_ # {}
          => /\ BestAskPrice(Book) \in DOMAIN sellLevels_
             /\ \A p \in DOMAIN sellLevels_ : BestAskPrice(Book) <= p

\* ------------------------------------------------ properties of the levels
\* C32: whenever the book mutex is free (submit, cancel or an expiry sweep
\* has returned), every order held by a level or by the id index has
\* status NEW or PARTIALLY_FILLED.
C32_OnlyLiveOrdersRest ==
    mutex_ = "free" =>
        \A id \in AllLevelIds(buyLevels_) \cup AllLevelIds(sellLevels_) \cup orderMap_ :
            orders[id].status \in {"NEW", "PARTIALLY_FILLED"}

\* a FILLED order and a CANCELLED or EXPIRED order have left the book and
\* a PARTIALLY_FILLED order rests in it
C32_Witness ==
    /\ mutex_ = "free"
    /\ \E f, g \in DOMAIN orders :
         /\ orders[f].status = "FILLED" /\ orders[f].quantity > 0
         /\ orders[g].status \in {"CANCELLED", "EXPIRED"}
    /\ \E r \in AllLevelIds(buyLevels_) \cup AllLevelIds(sellLevels_) :
         orders[r].status = "PARTIALLY_FILLED" /\ orders[r].remainingQuantity > 0

\* no level of the side map is empty
NoEmptyLevel(lvs) == \A p \in DOMAIN lvs : ~ PriceLevelIsEmpty(lvs[p])

\* C33: after every step that leaves the book mutex free no level of
\* either side is empty; and an execution between two orders of the same
\* remaining quantity leaves both FILLED, the resting one out of its
\* level, and no level at its price when it was alone there.
C33_LevelStep ==
    /\ mutex_' = "free" => (NoEmptyLevel(buyLevels_') /\ NoEmptyLevel(sellLevels_'))
    /\ \A k \in NewExecs :
         LET e   == execs'[k]
             rst == orders[e.resting]
             lvs == SideLevels(Book, rst.side)
             lvsAfter == IF rst.side = "BUY" THEN buyLevels_' ELSE sellLevels_'
         IN  (e.incomingRemaining = e.restingRemaining /\ e.restingRemaining > 0)
               => /\ orders'[e.incoming].status = "FILLED"
                  /\ orders'[e.resting].status = "FILLED"
                  /\ e.resting \notin AllLevelIds(lvsAfter)
                  /\ lvs[rst.price].orders_ = <<e.resting>>
                        => rst.price \notin DOMAIN lvsAfter

C33_NoEmptyLevel == [][C33_LevelStep]_vars

\* two orders of the same quantity have been matched and both are FILLED,
\* and an order has left a level of its own by cancel or expiry
C33_Witness ==
    /\ mutex_ = "free"
    /\ \E k \in 1..Len(execs) :
         /\ execs[k].incomingRemaining = execs[k].restingRemaining
         /\ execs[k].restingRemaining > 0
         /\ orders[execs[k].incoming].status = "FILLED"
         /\ orders[execs[k].resting].status = "FILLED"
    /\ \E g \in DOMAIN orders :
         /\ orders[g].status \in {"CANCELLED", "EXPIRED"}
         /\ orders[g].price \notin DOMAIN SideLevels(Book, orders[g].side)

\* ------------------------------------------- properties of a ring rotation
\* C34: the step counter changes only by a worker claiming a step; the
\* claim takes the counter's value s and leaves s + 1, so step values are
\* claimed in the order 0, 1, 2, ... and each once; the claiming worker
\* is CYCLE[s mod 8].memberIdx and the side it will place is
\* CYCLE[s mod 8].side; no other worker moves in that step.
C34_ClaimStep ==
    LET claims == {m \in RingMembers :
                      members[m].pc # "place" /\ members'[m].pc = "place"}
    IN  /\ step_' # step_ => (step_' = step_ + 1 /\ claims # {})
        /\ \A m \in claims :
             /\ claims = {m}
             /\ step_' = step_ + 1
             /\ members'[m].step = step_
             /\ m = CYCLE[(step_ % 8) + 1].memberIdx
             /\ members'[m].side = CYCLE[(step_ % 8) + 1].side
        /\ \A m \in RingMembers :
             members[m].pc = "place" /\ members'[m].pc = "log"
                => /\ orders'[Len(orders')].side = members[m].side
                   /\ orders'[Len(orders')].traderId = CIRCULAR_RING_IDS[m + 1]

C34_StepOwnership == [][C34_ClaimStep]_vars

\* the eight steps of a rotation have been claimed and placed
C34_Witness ==
    /\ step_ = 8
    /\ Len(ringPlaced) = 8
    /\ \A m \in RingMembers : \E i, j \in 1..8 :
         i # j /\ ringTaken[i].memberIdx = m /\ ringTaken[j].memberIdx = m

\* C35: a worker's pause is the long one exactly when the step it has
\* just placed is the last of a rotation (step 7 of 8).
C35_PauseSelection ==
    \A m \in RingMembers :
        members[m].pc = "sleep"
           => ((members[m].pause = "CIRCULAR_PAUSE_MS") <=> (members[m].step % 8 = 7))

\* C39: addOrder always returns and releases the book mutex, whatever the
\* order: no state is left with OrderBook::mutex_ held by a matching loop
\* that repeats one iteration forever.
C39_AddOrderReturns == mutex_ = "free"

\* C38: the recent-trade window never holds more than 100 trades and is
\* always the most recent (up to 100) executed trades of the book, in
\* execution order; the 101st trade evicts the oldest.
C38_RecentWindow ==
    /\ Len(recentTrades_) <= RECENT_TRADES_MAX
    /\ \E n \in {Len(execs)} :
         \E k \in {IF n < RECENT_TRADES_MAX THEN n ELSE RECENT_TRADES_MAX} :
           recentTrades_ = [i \in 1..k |-> execs[n - k + i].trade]

\* the 101st trade has been recorded and the first one is gone
C38_Witness ==
    /\ Len(execs) = RECENT_TRADES_MAX + 1
    /\ Len(recentTrades_) = RECENT_TRADES_MAX
    /\ recentTrades_[1].tradeId = 2
    /\ recentTrades_[RECENT_TRADES_MAX].tradeId = RECENT_TRADES_MAX + 1

\* C36: after stop() has cleared running_ and notified, every ring worker
\* eventually leaves its loop (so the joins of stop() return) wherever it
\* was; every step claimed has then been submitted; no step is claimed
\* once running_ is false and a worker that has left stays out.
RingAllExited == \A m \in RingMembers : members[m].pc = "exited"

C36_RingShutdown ==
    /\ (~ ringRunning_) ~> RingAllExited
    /\ [](RingAllExited => \A s \in 0..(step_ - 1) : \E i \in DOMAIN ringPlaced : ringPlaced[i] = s)
    /\ [][/\ (~ ringRunning_) => step_' = step_
          /\ \A m \in RingMembers :
               members[m].pc = "exited" => members'[m].pc = "exited"]_vars

\* the ring was stopped after two steps or more and every worker has left
C36_Witness ==
    /\ ~ ringRunning_
    /\ RingAllExited
    /\ step_ >= 2
    /\ Len(ringPlaced) = step_

\* C37: once ~OrderBook has cleared expiryRunning_, the expiry thread
\* leaves its loop at its next test of the flag, after at most the sleep
\* and the sweep it was in, and the destructor's join returns; the thread
\* never starts another sleep once it has seen the flag cleared, and the
\* book lock is free when it has left.
C37_ExpiryShutdown ==
    /\ (~ expiryRunning_) ~> (expiryPc = "exited")
    /\ (~ expiryRunning_) ~> (phase = "done")
    /\ [](expiryPc = "exited" => mutex_ = "free" /\ ~ expiryRunning_)
    /\ [][/\ (~ expiryRunning_ /\ expiryPc # "sleep") => expiryPc' # "sleep"
          /\ expiryPc = "exited" => expiryPc' = "exited"]_vars

\* the join has returned after a sweep that expired an order
C37_Witness ==
    /\ phase = "done"
    /\ expiryPc = "exited"
    /\ \E id \in DOMAIN orders : orders[id].status = "EXPIRED"

====
